---------------------------- MODULE Spec2Model ----------------------------
(***************************************************************************)
(* A model of RagOp: the composer / retriever (src/src/ragop/compose.py,   *)
(* retrieve.py), the index builds of the CLI (src/src/ragop/cli.py,        *)
(* index.py), the library's incremental build (src/incremental.py) and the *)
(* JSON line listener (src/rag_mcp_server.py).                             *)
(*                                                                         *)
(* A Python str is a sequence of one-character strings.  A BM25 score is a *)
(* fixed-point integer (the float times IdfScale, truncated).              *)
(***************************************************************************)
EXTENDS Integers, Sequences, FiniteSets, TLC

VARIABLES
    \* ---- composer (one call of compose_context / compose_ultra_compact)
    cindex,             \* the chunks load_index returns for index_path
    question,           \* argument question
    k,                  \* argument k
    snippet_max_chars,  \* argument snippet_max_chars
    max_total_chars,    \* argument max_total_chars
    ctx,                \* the ComposedContext returned
    cpc,                \* "ready" | "context" | "ultra": which call returned
    \* ---- manifest diff (one call of diff_tree, or of cmd_build's diff)
    dkind,              \* "lib" (incremental.py) | "cli" (cli.py) | "none"
    dprev,              \* the previous manifest
    dcur,               \* the current manifest
    dno_delete,         \* --no-delete
    dout,               \* the sets computed
    dpc,                \* "ready" | "done"
    \* ---- listener (rag_mcp_server.py)
    smode,              \* "tcp" (serve) | "stdio" (serve_stdio) | "none"
    sproc,              \* the serving process: "serving" | "stopped" | "crashed"
    shutdown_event,     \* _shutdown_event.is_set()
    conn,               \* per connection: the handler thread and its stream
    \* ---- builds (cli.py cmd_build, index.py build_index, incremental.py)
    tool,               \* "cli" (ragop build) | "lib" (incremental_build) | "none"
    idxLoc,             \* where the index and its manifest lie: "outside" the
                        \* scanned paths, in their ".index" directory
                        \* ("dotindex"), or elsewhere "inside" them
    idxDir,             \* whether the directory of the index exists
    src,                \* the source files: [exists, ver]; ver is the content
                        \* and the mtime
    idx,                \* the index file: [exists, lines, stamp]
    man,                \* the manifest file: [exists, ok, data, stamp]
    bpc,                \* the build's position
    bld,                \* the build's locals
    result,             \* what the last build emitted or returned
    nbuilds,            \* builds started
    atStart,            \* the files as they were when the build started
    prevRun,            \* the build before this one
    \* ---- one call of a function of the library
    call,               \* the function called and its arguments
    ret                 \* [done, raised, value]: what the call returned

composeVars == <<cindex, question, k, snippet_max_chars, max_total_chars, ctx, cpc>>
diffVars == <<dkind, dprev, dcur, dno_delete, dout, dpc>>
serverVars == <<smode, sproc, shutdown_event, conn>>
buildVars == <<tool, idxLoc, idxDir, src, idx, man, bpc, bld, result, nbuilds, atStart, prevRun>>

callVars == <<call, ret>>

vars == <<composeVars, diffVars, serverVars, buildVars, callVars>>

Max(a, b) == IF a >= b THEN a ELSE b
Min(a, b) == IF a <= b THEN a ELSE b

(***************************************************************************)
(* Bounds of the model.                                                    *)
(***************************************************************************)
MaxTextLen == 2     \* characters of a chunk's text
MaxChunks == 2      \* chunks of the index a query runs over
MaxK == 2           \* k
MaxSnip == 2        \* snippet_max_chars
MaxTotal == 4       \* max_total_chars
MaxFp == 2          \* values of a fingerprint's size and mtime
MaxReqs == 2        \* request lines read on one connection
MaxEdits == 1        \* changes made to the source files
MaxBuilds == 2      \* builds started
MaxTrimLen == 3     \* characters of a text given to a trim
MaxLines == 402     \* lines of a file chunked with the default parameters
MaxSmallLines == 6  \* lines of a file chunked with other parameters
MaxChunkSize == 3   \* lines_per_chunk, when not the default
MaxOverlap == 3     \* overlap, when not the default
MaxLoadLines == 2   \* lines of an index file given to load_index
MaxRecIds == 2      \* distinct chunk records on those lines
MaxRtLen == 2       \* characters of a text written to an index and read back
MaxDocLen == 3      \* tokens of a chunk that is scored
MaxPaths == 2       \* paths given to one build_index
MaxRoots == 2       \* roots given to one diff_tree

(***************************************************************************)
(* Strings.                                                                *)
(***************************************************************************)
\* the one character U+2026 (horizontal ellipsis)
Ellipsis == "U+2026"
NL == "\n"
\* the characters of a generated text: a token character and a whitespace
\* character, which is also the line separator
Chars == {"a", NL}
Whitespace == {" ", NL, "\t", "\r"}
LowerLetters == {"a","b","c","d","e","f","g","h","i","j","k","l","m",
                 "n","o","p","q","r","s","t","u","v","w","x","y","z"}
UpperLetters == {"A", "B"}
DigitChars == {"0","1","2","3","4","5","6","7","8","9"}

Str(n) == UNION {[1..m -> Chars] : m \in 0..n}

\* str.lower() on one character
Lower(c) == CASE c = "A" -> "a" [] c = "B" -> "b" [] OTHER -> c

\* TOKEN_RE = [A-Za-z0-9_]+
TOKEN_RE == LowerLetters \cup UpperLetters \cup DigitChars \cup {"_"}

\* str.rstrip()
RECURSIVE rstrip(_)
rstrip(s) ==
    IF s = <<>> THEN s
    ELSE IF s[Len(s)] \in Whitespace THEN rstrip(SubSeq(s, 1, Len(s) - 1))
    ELSE s

\* sep.join(parts)
RECURSIVE join(_, _)
join(sep, parts) ==
    IF parts = <<>> THEN <<>>
    ELSE IF Len(parts) = 1 THEN parts[1]
    ELSE parts[1] \o sep \o join(sep, Tail(parts))

\* str(n) for n >= 0
RECURSIVE IntToStr(_)
IntToStr(n) ==
    LET d == <<"0","1","2","3","4","5","6","7","8","9">>[(n % 10) + 1]
    IN IF n < 10 THEN <<d>> ELSE IntToStr(n \div 10) \o <<d>>

\* the least i with s[i..] starting with sub, or 0 (str.find + 1)
RECURSIVE FindFrom(_, _, _)
FindFrom(s, sub, i) ==
    IF i + Len(sub) - 1 > Len(s) THEN 0
    ELSE IF SubSeq(s, i, i + Len(sub) - 1) = sub THEN i
    ELSE FindFrom(s, sub, i + 1)

Count(s, c) == Cardinality({i \in 1..Len(s) : s[i] = c})

(***************************************************************************)
(* retrieve.py                                                             *)
(***************************************************************************)
\* _tokenize: the lower-cased maximal runs of TOKEN_RE characters
RECURSIVE TokenizeFrom(_, _, _)
TokenizeFrom(text, i, cur) ==
    IF i > Len(text) THEN (IF cur = <<>> THEN <<>> ELSE <<cur>>)
    ELSE IF text[i] \in TOKEN_RE
         THEN TokenizeFrom(text, i + 1, Append(cur, Lower(text[i])))
    ELSE (IF cur = <<>> THEN <<>> ELSE <<cur>>) \o TokenizeFrom(text, i + 1, <<>>)

_tokenize(text) == TokenizeFrom(text, 1, <<>>)

IdfScale == 1000000

\* a plausible slip: the idf of classic BM25, without the + 1 inside the
\* logarithm, negative for a term in more than half of the chunks
idfClassic(N, n_qi) ==
    CASE N = 1 -> <<1098612, -1098612>>[n_qi + 1]
      [] N = 2 -> <<1609438, 0, -1609438>>[n_qi + 1]
      [] N = 3 -> <<1945910, 510826, -510826, -1945910>>[n_qi + 1]
      [] N = 4 -> <<2197225, 847298, 0, -847298, -2197225>>[n_qi + 1]

\* idf(term) = math.log((N - n_qi + 0.5) / (n_qi + 0.5) + 1), times IdfScale
idf(N, n_qi) ==
    CASE N = 1 -> <<1386294, 287682>>[n_qi + 1]
      [] N = 2 -> <<1791759, 693147, 182322>>[n_qi + 1]
      [] N = 3 -> <<2079442, 980829, 470004, 133531>>[n_qi + 1]
      [] N = 4 -> <<2302585, 1203973, 693147, 356675, 105361>>[n_qi + 1]

RECURSIVE SumSeq(_)
SumSeq(s) == IF s = <<>> THEN 0 ELSE s[1] + SumSeq(Tail(s))

\* _bm25_scores with k1 = 1.5, b = 0.75:
\*   tf*(k1+1) / (tf + k1*(1 - b + b*dl/avgdl)), avgdl = total/N,
\*   = 20*tf*total / (8*tf*total + 3*total + 9*dl*N)
_bm25_scores(chunks, query) ==
    LET N == Len(chunks)
        chunk_tokens == [i \in 1..N |-> _tokenize(chunks[i].text)]
        total == SumSeq([i \in 1..N |-> Len(chunk_tokens[i])])
        tfOf(i, q) == Cardinality({j \in 1..Len(chunk_tokens[i]) : chunk_tokens[i][j] = q})
        df(q) == Cardinality({i \in 1..N : tfOf(i, q) > 0})
        q_terms == _tokenize(query)
        term(i, q) ==
            LET tf == tfOf(i, q)
                dl == Len(chunk_tokens[i])
            IN IF tf = 0 THEN 0
               ELSE (idf(N, df(q)) * 20 * tf * total)
                        \div (8 * tf * total + 3 * total + 9 * dl * N)
    IN [i \in 1..N |-> SumSeq([j \in 1..Len(q_terms) |-> term(i, q_terms[j])])]

\* sorted(zip(chunks, scores), key=score, reverse=True): a stable sort, so
\* a plausible slip: among equal scores the later chunk goes first
RankOfLastSeen(scores, i) ==
    1 + Cardinality({j \in 1..Len(scores) :
                        scores[j] > scores[i] \/ (scores[j] = scores[i] /\ j > i)})

\* position i goes before position j iff its score is larger, or equal and i < j
RankOf(scores, i) ==
    1 + Cardinality({j \in 1..Len(scores) :
                        scores[j] > scores[i] \/ (scores[j] = scores[i] /\ j < i)})

ranked(chunks, scores) ==
    [r \in 1..Len(chunks) |->
        LET i == CHOOSE i \in 1..Len(chunks) : RankOf(scores, i) = r
        IN [chunk |-> chunks[i], score |-> scores[i]]]

\* the snippet trim inside retrieve
RetrieveTrim(text, limit) ==
    IF limit # 0 /\ Len(text) > limit
    THEN rstrip(SubSeq(text, 1, limit - 1)) \o <<Ellipsis>>
    ELSE text

retrieve(query, kk, chunks, limit) ==
    IF chunks = <<>> THEN <<>>
    ELSE LET rk == ranked(chunks, _bm25_scores(chunks, query))
             n == Min(Len(rk), Max(1, kk))
         IN [r \in 1..n |->
                [path |-> rk[r].chunk.path,
                 start_line |-> rk[r].chunk.start_line,
                 end_line |-> rk[r].chunk.end_line,
                 text |-> RetrieveTrim(rk[r].chunk.text, limit),
                 score |-> rk[r].score]]

(***************************************************************************)
(* config.py: the defaults load_env_defaults() gives with no environment   *)
(* variable set.                                                           *)
(***************************************************************************)
CfgK == 1
CfgSnippetMaxChars == 500
CfgMaxTotalChars == 1200

(***************************************************************************)
(* compose.py                                                              *)
(***************************************************************************)
\* a plausible slip: the cut text keeps its trailing whitespace
_trimNoStrip(text, limit) ==
    IF Len(text) <= limit THEN text
    ELSE SubSeq(text, 1, Max(0, limit - 1)) \o <<Ellipsis>>

_trim(text, limit) ==
    IF Len(text) <= limit THEN text
    ELSE rstrip(SubSeq(text, 1, Max(0, limit - 1))) \o <<Ellipsis>>

\* f"[{r.path}:{r.start_line}-{r.end_line}]"
cite(r) ==
    <<"[">> \o r.path \o <<":">> \o IntToStr(r.start_line) \o <<"-">>
        \o IntToStr(r.end_line) \o <<"]">>

Sep == <<NL, NL>>

\* the for loop of compose_context over results[i..]
RECURSIVE ComposeLoop(_, _, _, _, _, _)
ComposeLoop(results, i, parts, cites, snip, total) ==
    IF i > Len(results) THEN [parts |-> parts, cites |-> cites]
    ELSE LET parts2 == Append(parts, _trim(results[i].text, snip))
             cites2 == Append(cites, cite(results[i]))
         IN IF Len(join(Sep, parts2)) > total
            THEN [parts |-> parts, cites |-> cites]
            ELSE ComposeLoop(results, i + 1, parts2, cites2, snip, total)

\* x or y on integers
Or(x, y) == IF x # 0 THEN x ELSE y

\* results = retrieve(question, k=k, index_path=idx_path, snippet_max_chars=...)
\* after the defaults of compose_context are applied
ComposeResults(q, kk, snip, chunks) ==
    retrieve(q, Max(1, Or(kk, CfgK)), chunks, Or(snip, CfgSnippetMaxChars))

compose_context(q, kk, snip, total, chunks) ==
    LET snip1 == Or(snip, CfgSnippetMaxChars)
        total1 == Or(total, CfgMaxTotalChars)
        results == ComposeResults(q, kk, snip, chunks)
        out == ComposeLoop(results, 1, <<>>, <<>>, snip1, total1)
    IN [text |-> join(Sep, out.parts), citations |-> out.cites]

compose_ultra_compact(q, kk, snip, total, chunks) ==
    LET c == compose_context(q, Max(1, kk), snip, total, chunks)
        at == FindFrom(c.text, Sep, 1)
    IN IF at # 0
       THEN [text |-> SubSeq(c.text, 1, at - 1),
             citations |-> SubSeq(c.citations, 1, Min(1, Len(c.citations)))]
       ELSE c

(***************************************************************************)
(* The composer's inputs.                                                  *)
(***************************************************************************)
IndexPaths == << <<"a",".","m","d">>, <<"b",".","m","d">>, <<"c",".","m","d">> >>

\* a chunk as _chunk_file writes it: the text of lines start..end joined by \n
ChunkAt(i, text) ==
    [path |-> IndexPaths[i], start_line |-> 1,
     end_line |-> 1 + Count(text, NL), text |-> text]

Indexes ==
    UNION {{[i \in 1..n |-> ChunkAt(i, t[i])] : t \in [1..n -> Str(MaxTextLen)]}
              : n \in 0..MaxChunks}

Questions == {<<"a">>}

NoCtx == [text |-> <<>>, citations |-> <<>>]

\* the end-to-end example of the two files a.md and b.md
ExampleIndex ==
    << [path |-> IndexPaths[1], start_line |-> 1, end_line |-> 1,
        text |-> <<"a","l","p","h","a"," ","b","e","t","a"," ","a","l","p","h","a">>],
       [path |-> IndexPaths[2], start_line |-> 1, end_line |-> 1,
        text |-> <<"b","e","t","a"," ","g","a","m","m","a">>] >>
ExampleQuestion == <<"a","l","p","h","a">>

\* no manifest diff is in progress
DiffIdle ==
    /\ dkind = "none"
    /\ dprev = <<>>
    /\ dcur = <<>>
    /\ dno_delete = FALSE
    /\ dout = <<>>
    /\ dpc = "ready"

Conns == {"c1", "c2"}

\* a connection nobody has written to yet
NewConn == [st |-> "open", nread |-> 0, last |-> "none", index |-> "none", resp |-> <<>>]

\* no listener runs
ServerIdle ==
    /\ smode = "none"
    /\ sproc = "stopped"
    /\ shutdown_event = FALSE
    /\ conn = [c \in Conns |-> NewConn]

\* a call that has not returned
NoRet == [done |-> FALSE, raised |-> "none", value |-> <<>>]

\* no function is called
CallIdle ==
    /\ call = [op |-> "none"]
    /\ ret = NoRet

SrcFiles == {"a.md", "b.md"}

\* no manifest file, no index file
NoManifest == [exists |-> FALSE, ok |-> TRUE, data |-> <<>>, stamp |-> 0]
NoIndex == [exists |-> FALSE, lines |-> <<>>, stamp |-> 0]
NoSources == [f \in SrcFiles |-> [exists |-> FALSE, ver |-> 0]]

\* nothing emitted yet
NoResult == [kind |-> "none", ok |-> FALSE, incremental |-> FALSE, skipped |-> FALSE,
             changed_files |-> 0, deleted_files |-> 0,
             added |-> 0, modified |-> 0, removed |-> 0, chunks |-> 0,
             failedAt |-> "none"]

\* the locals of a build before its first statement
NoLocals == [incr |-> FALSE, no_delete |-> FALSE, manifest |-> "None",
             prev |-> <<>>, curr |-> <<>>, changed |-> {}, deleted |-> {},
             parts_exists |-> FALSE, parts |-> <<>>,
             tmp |-> <<>>, count |-> 0, todo |-> <<>>]

\* the files as a build found them
NoStart == [idx |-> NoIndex, man |-> NoManifest, src |-> NoSources]

\* the run before the current one
NoRun == [valid |-> FALSE, incr |-> FALSE, no_delete |-> FALSE,
          manifest |-> "None", ok |-> FALSE,
          src |-> NoSources, lines |-> <<>>]

\* no build runs
BuildIdle ==
    /\ tool = "none"
    /\ idxLoc = "outside"
    /\ idxDir = FALSE
    /\ src = NoSources
    /\ idx = NoIndex
    /\ man = NoManifest
    /\ bpc = "idle"
    /\ bld = NoLocals
    /\ result = NoResult
    /\ nbuilds = 0
    /\ atStart = NoStart
    /\ prevRun = NoRun

InitCompose ==
    /\ DiffIdle
    /\ ServerIdle
    /\ BuildIdle
    /\ CallIdle
    /\ cpc = "ready"
    /\ ctx = NoCtx
    /\ \/ /\ cindex \in Indexes
          /\ question \in Questions
          /\ k \in 0..MaxK
          /\ snippet_max_chars \in 0..MaxSnip
          /\ max_total_chars \in 0..MaxTotal
       \/ /\ cindex = ExampleIndex
          /\ question = ExampleQuestion
          /\ k = 1
          /\ snippet_max_chars = 500
          /\ max_total_chars = 1200

ComposeContext ==
    /\ cpc = "ready"
    /\ ctx' = compose_context(question, k, snippet_max_chars, max_total_chars, cindex)
    /\ cpc' = "context"
    /\ UNCHANGED <<cindex, question, k, snippet_max_chars, max_total_chars>>
    /\ UNCHANGED <<diffVars, serverVars, buildVars, callVars>>

ComposeUltraCompact ==
    /\ cpc = "ready"
    /\ ctx' = compose_ultra_compact(question, k, snippet_max_chars, max_total_chars, cindex)
    /\ cpc' = "ultra"
    /\ UNCHANGED <<cindex, question, k, snippet_max_chars, max_total_chars>>
    /\ UNCHANGED <<diffVars, serverVars, buildVars, callVars>>

NextCompose == ComposeContext \/ ComposeUltraCompact

SpecCompose == InitCompose /\ [][NextCompose]_vars

(***************************************************************************)
(* C1.  For every total budget T >= 0 passed to compose_context or         *)
(* compose_ultra_compact, the returned text, separators included, has at   *)
(* most T characters.                                                      *)
(***************************************************************************)
C1_ComposerBudget ==
    cpc # "ready" => Len(ctx.text) <= max_total_chars

\* what the code does keep: the budget, when the budget is at least 1
C1_ComposerBudgetPositive ==
    (cpc # "ready" /\ max_total_chars >= 1) => Len(ctx.text) <= max_total_chars

(***************************************************************************)
(* C10.  Every citation of compose_context is exactly                      *)
(* "<path>:<start_line>-<end_line>" of the chunk's own line range, and the *)
(* two-file example returns text "alpha beta alpha" with citations         *)
(* ["a.md:1-1"].                                                           *)
(***************************************************************************)
PlainCitation(r) ==
    r.path \o <<":">> \o IntToStr(r.start_line) \o <<"-">> \o IntToStr(r.end_line)

C10_CitationFormat ==
    cpc = "context" =>
        LET results == ComposeResults(question, k, snippet_max_chars, cindex)
        IN /\ Len(ctx.citations) <= Len(results)
           /\ \A i \in 1..Len(ctx.citations) :
                 ctx.citations[i] = PlainCitation(results[i])
           /\ (cindex = ExampleIndex /\ question = ExampleQuestion) =>
                 /\ ctx.text = ExampleIndex[1].text
                 /\ ctx.citations = << <<"a",".","m","d",":","1","-","1">> >>

\* what the code returns: the same citation inside square brackets
C10_CitationBracketed ==
    cpc = "context" =>
        LET results == ComposeResults(question, k, snippet_max_chars, cindex)
        IN /\ Len(ctx.citations) <= Len(results)
           /\ \A i \in 1..Len(ctx.citations) :
                 ctx.citations[i] = <<"[">> \o PlainCitation(results[i]) \o <<"]">>
           /\ (cindex = ExampleIndex /\ question = ExampleQuestion) =>
                 /\ ctx.text = ExampleIndex[1].text
                 /\ Len(ctx.citations) = 1

(***************************************************************************)
(* C11 - C13: the composed text and its citations.                         *)
(***************************************************************************)
\* str.split(sep)
RECURSIVE Split(_, _)
Split(s, sep) ==
    LET at == FindFrom(s, sep, 1)
    IN IF at = 0 THEN <<s>>
       ELSE <<SubSeq(s, 1, at - 1)>> \o Split(SubSeq(s, at + Len(sep), Len(s)), sep)

\* the blank-line-separated paragraphs of a text; the empty text has none
Paragraphs(text) == IF text = <<>> THEN <<>> ELSE Split(text, Sep)

\* the ranked results of the call and their snippets, in rank order
Results == ComposeResults(question, k, snippet_max_chars, cindex)
Snippets ==
    [i \in 1..Len(Results) |->
        _trim(Results[i].text, Or(snippet_max_chars, CfgSnippetMaxChars))]

\* the first n snippets joined
Joined(n) == join(Sep, SubSeq(Snippets, 1, n))

\* a snippet that is one paragraph: not empty, no newline at either end, no
\* blank line inside
OneParagraph(s) ==
    /\ s # <<>>
    /\ s[1] # NL
    /\ s[Len(s)] # NL
    /\ FindFrom(s, Sep, 1) = 0

\* C11: the citations of compose_context are as many as the paragraphs of
\* its text, and citations[i] names the chunk the i-th paragraph was taken
\* from.
C11_CitationPerParagraph ==
    cpc = "context" =>
        LET paras == Paragraphs(ctx.text)
        IN /\ Len(ctx.citations) = Len(paras)
           /\ \A i \in 1..Len(ctx.citations) :
                 /\ i <= Len(Results)
                 /\ ctx.citations[i] = cite(Results[i])
                 /\ paras[i] = Snippets[i]

\* the part of C11 that holds: every kept snippet is one paragraph
C11_CitationPerCleanSnippet ==
    (cpc = "context" /\ \A i \in 1..Len(ctx.citations) : OneParagraph(Snippets[i])) =>
        LET paras == Paragraphs(ctx.text)
        IN /\ Len(ctx.citations) = Len(paras)
           /\ \A i \in 1..Len(ctx.citations) :
                 /\ ctx.citations[i] = cite(Results[i])
                 /\ paras[i] = Snippets[i]

\* what compose_context returns for the arguments of the call
Composed == compose_context(question, k, snippet_max_chars, max_total_chars, cindex)

\* C12: when compose_context keeps at least one snippet, compose_ultra_compact
\* returns the first kept snippet, whole, and its citation alone.
C12_UltraFirstSnippet ==
    (cpc = "ultra" /\ Len(Composed.citations) >= 1) =>
        /\ ctx.text = Snippets[1]
        /\ ctx.citations = <<Composed.citations[1]>>

\* the part of C12 that holds: every kept snippet is one paragraph
C12_UltraFirstCleanSnippet ==
    (/\ cpc = "ultra"
     /\ Len(Composed.citations) >= 1
     /\ \A i \in 1..Len(Composed.citations) : OneParagraph(Snippets[i])) =>
        /\ ctx.text = Snippets[1]
        /\ ctx.citations = <<Composed.citations[1]>>

\* the kept snippets are the longest prefix of the ranked results whose
\* joined text fits the budget
KeptPrefix(budget) ==
    LET n == Len(ctx.citations)
    IN /\ n <= Len(Results)
       /\ ctx.text = Joined(n)
       /\ \A i \in 1..n : ctx.citations[i] = cite(Results[i])
       /\ \A m \in 1..n : Len(Joined(m)) <= budget
       /\ n < Len(Results) => Len(Joined(n + 1)) > budget

\* C13: compose_context keeps the ranked results in rank order up to the
\* first snippet that makes the joined text exceed the total budget; that
\* snippet and its citation are dropped and nothing later is added.
C13_KeptPrefix ==
    cpc = "context" => KeptPrefix(max_total_chars)

\* the part of C13 that holds: the budget is at least 1
C13_KeptPrefixPositive ==
    (cpc = "context" /\ max_total_chars >= 1) => KeptPrefix(max_total_chars)

(***************************************************************************)
(* The manifest diff: diff_tree of incremental.py and cmd_build of cli.py. *)
(* A manifest is a function from file keys to fingerprints.                *)
(***************************************************************************)
ManifestKeys == {"a.md", "b.md"}

\* _file_info: {"size", "mtime_ns"} and, in mode "hash", "sha1"
\* (a digest is one of two numbers; None is -1)
None == -1
Digests == {1, 2}
LibFingerprints ==
    [{"size", "mtime_ns"} -> 1..MaxFp]
    \cup {f \in [{"size", "mtime_ns", "sha1"} -> (1..MaxFp) \cup Digests] :
              /\ f["size"] \in 1..MaxFp
              /\ f["mtime_ns"] \in 1..MaxFp
              /\ f["sha1"] \in Digests}

\* _snapshot: (st.st_mtime, st.st_size)
CliFingerprints == (1..MaxFp) \X (1..MaxFp)

Manifests(fps) == UNION {[ks -> fps] : ks \in SUBSET ManifestKeys}

\* dict.get(field): None when the field is absent
Get(a, field) == IF field \in DOMAIN a THEN a[field] ELSE None

DiffAdded(prev, cur) == DOMAIN cur \ DOMAIN prev

DiffRemoved(prev, cur) == DOMAIN prev \ DOMAIN cur

\* a plausible slip: the content hash is not compared
DiffModifiedNoSha(prev, cur) ==
    {key \in DOMAIN cur \cap DOMAIN prev :
        \/ Get(prev[key], "mtime_ns") # Get(cur[key], "mtime_ns")
        \/ Get(prev[key], "size") # Get(cur[key], "size")}

DiffModified(prev, cur) ==
    {key \in DOMAIN cur \cap DOMAIN prev :
        \/ Get(prev[key], "mtime_ns") # Get(cur[key], "mtime_ns")
        \/ Get(prev[key], "size") # Get(cur[key], "size")
        \/ Get(prev[key], "sha1") # Get(cur[key], "sha1")}

\* cmd_build: changed = {p for p in curr_keys if (p not in prev) or (prev[p] != curr[p])}
CliChanged(prev, curr) ==
    {p \in DOMAIN curr : p \notin DOMAIN prev \/ prev[p] # curr[p]}

\* a plausible slip: the no-delete policy is not consulted
CliDeletedAlways(prev, curr, no_delete) == DOMAIN prev \ DOMAIN curr

\* cmd_build: deleted = set() if no_delete else (prev_keys - curr_keys)
CliDeleted(prev, curr, no_delete) ==
    IF no_delete THEN {} ELSE DOMAIN prev \ DOMAIN curr

ComposeIdle ==
    /\ cindex = <<>>
    /\ question = <<>>
    /\ k = 0
    /\ snippet_max_chars = 0
    /\ max_total_chars = 0
    /\ ctx = NoCtx
    /\ cpc = "ready"

InitDiff ==
    /\ ComposeIdle
    /\ ServerIdle
    /\ BuildIdle
    /\ CallIdle
    /\ dpc = "ready"
    /\ dout = <<>>
    /\ \/ /\ dkind = "lib"
          /\ dprev \in Manifests(LibFingerprints)
          /\ dcur \in Manifests(LibFingerprints)
          /\ dno_delete = FALSE
       \/ /\ dkind = "cli"
          /\ dprev \in Manifests(CliFingerprints)
          /\ dcur \in Manifests(CliFingerprints)
          /\ dno_delete \in BOOLEAN

\* diff_tree, lines 96-111
DiffTree ==
    /\ dpc = "ready"
    /\ dkind = "lib"
    /\ dout' = [added |-> DiffAdded(dprev, dcur),
                modified |-> DiffModified(dprev, dcur),
                removed |-> DiffRemoved(dprev, dcur)]
    /\ dpc' = "done"
    /\ UNCHANGED <<dkind, dprev, dcur, dno_delete>>
    /\ UNCHANGED <<composeVars, serverVars, buildVars, callVars>>

\* cmd_build, lines 104-106
CmdBuildDiff ==
    /\ dpc = "ready"
    /\ dkind = "cli"
    /\ dout' = [changed |-> CliChanged(dprev, dcur),
                deleted |-> CliDeleted(dprev, dcur, dno_delete)]
    /\ dpc' = "done"
    /\ UNCHANGED <<dkind, dprev, dcur, dno_delete>>
    /\ UNCHANGED <<composeVars, serverVars, buildVars, callVars>>

NextDiff == DiffTree \/ CmdBuildDiff

SpecDiff == InitDiff /\ [][NextDiff]_vars

(***************************************************************************)
(* C8.  The diff of manifests prev and cur: added = keys(cur) - keys(prev),*)
(* removed = keys(prev) - keys(cur), modified = the keys in both whose     *)
(* fingerprints differ; the three are pairwise disjoint and their union is *)
(* every key but those in both with equal fingerprints.  The CLI's changed *)
(* set is added \cup modified; its deleted set is removed -- as amended,   *)
(* unless --no-delete is given, and then it is empty.                      *)
(***************************************************************************)
KeysOf(m) == DOMAIN m
SpecAdded == KeysOf(dcur) \ KeysOf(dprev)
SpecRemoved == KeysOf(dprev) \ KeysOf(dcur)
SpecModified == {key \in KeysOf(dprev) \cap KeysOf(dcur) : dprev[key] # dcur[key]}
SpecUnchanged == {key \in KeysOf(dprev) \cap KeysOf(dcur) : dprev[key] = dcur[key]}

C8_LibDiff ==
    (dpc = "done" /\ dkind = "lib") =>
        /\ dout.added = SpecAdded
        /\ dout.removed = SpecRemoved
        /\ dout.modified = SpecModified
        /\ dout.added \cap dout.modified = {}
        /\ dout.added \cap dout.removed = {}
        /\ dout.modified \cap dout.removed = {}
        /\ dout.added \cup dout.modified \cup dout.removed
              = (KeysOf(dprev) \cup KeysOf(dcur)) \ SpecUnchanged

\* the claim as stated: the CLI's deleted set is always removed
C8_DiffSets ==
    /\ C8_LibDiff
    /\ (dpc = "done" /\ dkind = "cli") =>
          /\ dout.changed = SpecAdded \cup SpecModified
          /\ dout.deleted = SpecRemoved

\* the claim as amended
C8_DiffSetsAmended ==
    /\ C8_LibDiff
    /\ (dpc = "done" /\ dkind = "cli") =>
          /\ dout.changed = SpecAdded \cup SpecModified
          /\ dout.deleted = (IF dno_delete THEN {} ELSE SpecRemoved)

\* the CLI's diff ran under --no-delete on manifests with an added, a
\* modified and a removed key
C8_Witness ==
    /\ dpc = "done"
    /\ dkind = "cli"
    /\ dno_delete
    /\ SpecRemoved # {}
    /\ SpecModified # {}
    /\ dout.changed = SpecModified

(***************************************************************************)
(* index.py: chunking and the full build.  In the build model a path is an *)
(* atom, a source file's content is its version number, and the text of a  *)
(* record is the version it was cut from.                                  *)
(***************************************************************************)
CHUNK_LINES == 200
CHUNK_OVERLAP == 40

\* a plausible slip: the next start is not clamped to the end of the chunk
\* just emitted, so an overlap as large as the chunk makes no progress; the
\* endless sequence is cut after the first chunk that repeats
RECURSIVE ChunkLoopUnclamped(_, _, _, _)
ChunkLoopUnclamped(n, i, lines_per_chunk, overlap) ==
    LET j == Min(n, i + lines_per_chunk)
        ch == [start_line |-> i + 1, end_line |-> j]
        next == i + lines_per_chunk - overlap
    IN IF j >= n THEN <<ch>>
       ELSE IF next <= i THEN <<ch, ch>>
       ELSE <<ch>> \o ChunkLoopUnclamped(n, next, lines_per_chunk, overlap)

\* a plausible slip: the next chunk starts one line too late
RECURSIVE ChunkLoopSkips(_, _, _, _)
ChunkLoopSkips(n, i, lines_per_chunk, overlap) ==
    LET j == Min(n, i + lines_per_chunk)
        ch == [start_line |-> i + 1, end_line |-> j]
    IN IF j >= n THEN <<ch>>
       ELSE <<ch>> \o ChunkLoopSkips(n, Max(i + lines_per_chunk - overlap, j) + 1,
                                     lines_per_chunk, overlap)

\* the while loop of _chunk_file from 0-based line i
RECURSIVE ChunkLoop(_, _, _, _)
ChunkLoop(n, i, lines_per_chunk, overlap) ==
    LET j == Min(n, i + lines_per_chunk)
        ch == [start_line |-> i + 1, end_line |-> j]
    IN IF j >= n THEN <<ch>>
       ELSE <<ch>> \o ChunkLoop(n, Max(i + lines_per_chunk - overlap, j),
                                lines_per_chunk, overlap)

\* the line ranges _chunk_file yields for a file of n lines
_chunk_file(n, lines_per_chunk, overlap) ==
    IF n = 0 THEN <<>> ELSE ChunkLoop(n, 0, lines_per_chunk, overlap)

\* the files of the model: two sources, the index and its manifest
IndexFile == "rag_index.jsonl"
ManifestFile == "rag_index.jsonl.manifest.json"
FileOrder == <<"a.md", "b.md", IndexFile, ManifestFile>>

\* the number of lines of a file: a.md is cut into two chunks, the others into one
NLines(f) == IF f = "a.md" THEN 201 ELSE 1

\* path.suffix.lower() in INCLUDE_EXTS: .md and .json are, .jsonl is not
InIncludeExts(f) == f \in SrcFiles \cup {ManifestFile}

\* _is_jsonl(idx_path)
_is_jsonl(path) == path = IndexFile

\* p.is_file()
IsFile(f) ==
    IF f \in SrcFiles THEN src[f].exists
    ELSE IF f = IndexFile THEN idx.exists
    ELSE man.exists

\* what reading the file gives: its version
Content(f) ==
    IF f \in SrcFiles THEN src[f].ver
    ELSE IF f = IndexFile THEN idx.stamp
    ELSE man.stamp

\* the lines build_index writes for one file: json.dumps(ch.__dict__,
\* ensure_ascii=False), the default separators
FileRecords(f) ==
    LET chs == _chunk_file(NLines(f), CHUNK_LINES, CHUNK_OVERLAP)
    IN [i \in 1..Len(chs) |->
           [ok |-> TRUE, path |-> f, start_line |-> chs[i].start_line,
            end_line |-> chs[i].end_line, text |-> Content(f), fmt |-> "default"]]

\* a line cut short by the death of the writer: json.loads raises on it
TornLine == [ok |-> FALSE, path |-> "", start_line |-> 0, end_line |-> 0,
             text |-> 0, fmt |-> "torn"]

\* the members of a set of files, in directory order
InOrder(S) == SelectSeq(FileOrder, LAMBDA f : f \in S)

\* the files the index and its manifest add to a walk of the scanned paths
OwnFiles == IF idxLoc = "outside" THEN {} ELSE {IndexFile, ManifestFile}

\* index.py _iter_files over the scanned directories: IGNORE_DIRS (".index"
\* among them) are pruned, then the extension decides
IndexIterFiles ==
    InOrder({f \in SrcFiles \cup (IF idxLoc = "inside" THEN OwnFiles ELSE {}) :
                IsFile(f) /\ InIncludeExts(f)})

\* index.py _iter_files over a list of files: the extension alone decides
IndexIterGiven(files) ==
    InOrder({f \in files : IsFile(f) /\ InIncludeExts(f)})

RECURSIVE RecordsOf(_)
RecordsOf(files) ==
    IF files = <<>> THEN <<>>
    ELSE (IF IsFile(files[1]) THEN FileRecords(files[1]) ELSE <<>>)
            \o RecordsOf(Tail(files))

(***************************************************************************)
(* cli.py: snapshot, manifest, merge.                                      *)
(***************************************************************************)
\* st.st_size (a source's size stands for its lines)
FileSize(f) ==
    IF f \in SrcFiles THEN NLines(f)
    ELSE IF f = IndexFile THEN Len(idx.lines)
    ELSE Cardinality(DOMAIN man.data)

\* cli.py _iter_files: every file under the paths, no filter at all
CliIterFiles == {f \in SrcFiles \cup OwnFiles : IsFile(f)}

\* _snapshot: {str(f): (st_mtime, st_size)}
_snapshot == [f \in CliIterFiles |-> <<Content(f), FileSize(f)>>]

\* _load_manifest: {} when the file is missing or cannot be parsed
_load_manifest == IF man.exists /\ man.ok THEN man.data ELSE <<>>

\* json.dumps(obj, separators=(",", ":")): the same record, compact
Compact(line) == [line EXCEPT !.fmt = "compact"]

\* a plausible slip: the deleted set is not consulted
RECURSIVE MergeOldKeepsDeleted(_, _, _)
MergeOldKeepsDeleted(lines, changed, deleted) ==
    IF lines = <<>> THEN <<>>
    ELSE LET line == lines[1]
             keep == /\ line.ok
                     /\ line.path # ""
                     /\ line.path \notin changed
         IN (IF keep THEN <<Compact(line)>> ELSE <<>>)
                \o MergeOldKeepsDeleted(Tail(lines), changed, deleted)

\* the first loop of _merge_jsonl: the old lines kept
RECURSIVE MergeOld(_, _, _)
MergeOld(lines, changed, deleted) ==
    IF lines = <<>> THEN <<>>
    ELSE LET line == lines[1]
             keep == /\ line.ok
                     /\ line.path # ""
                     /\ line.path \notin changed
                     /\ line.path \notin deleted
         IN (IF keep THEN <<Compact(line)>> ELSE <<>>)
                \o MergeOld(Tail(lines), changed, deleted)

\* the second loop of _merge_jsonl: the new parts appended
RECURSIVE MergeNew(_)
MergeNew(lines) ==
    IF lines = <<>> THEN <<>>
    ELSE (IF lines[1].ok THEN <<Compact(lines[1])>> ELSE <<>>) \o MergeNew(Tail(lines))

\* the lines _merge_jsonl writes to its temporary file
_merge_jsonl(old_exists, old_lines, new_exists, new_lines, changed, deleted) ==
    (IF old_exists THEN MergeOld(old_lines, changed, deleted) ELSE <<>>)
        \o (IF new_exists THEN MergeNew(new_lines) ELSE <<>>)

(***************************************************************************)
(* The build: cmd_build of cli.py (tool "cli") and incremental_build of    *)
(* incremental.py with build_index as its full build (tool "lib").  A      *)
(* build is a sequence of steps; between two steps the source files may    *)
(* change, an exception may end the build, and the process may be killed.  *)
(* idxLoc says where the index and its manifest lie: outside the scanned   *)
(* paths, under them in a directory named .index, or directly in them.     *)
(***************************************************************************)
Tools == {"cli", "lib"}
Locs == {"outside", "dotindex", "inside"}

InitBuild ==
    /\ ComposeIdle
    /\ DiffIdle
    /\ ServerIdle
    /\ CallIdle
    /\ tool \in Tools
    /\ idxLoc \in Locs
    /\ idxDir \in IF idxLoc = "inside" THEN {TRUE} ELSE BOOLEAN
    /\ src = [f \in SrcFiles |-> [exists |-> TRUE, ver |-> 1]]
    /\ idx = NoIndex
    /\ man = NoManifest
    /\ bpc = "idle"
    /\ bld = NoLocals
    /\ result = NoResult
    /\ nbuilds = 0
    /\ atStart = NoStart
    /\ prevRun = NoRun

\* what a build remembers of the one before it
LastRun ==
    IF nbuilds = 0 THEN NoRun
    ELSE [valid |-> TRUE, incr |-> bld.incr, no_delete |-> bld.no_delete,
          manifest |-> bld.manifest,
          ok |-> result.ok, src |-> atStart.src, lines |-> idx.lines]

\* the number of changes made to the source files so far
RECURSIVE EditsOf(_)
EditsOf(files) ==
    IF files = {} THEN 0
    ELSE LET f == CHOOSE x \in files : TRUE
         IN (src[f].ver - 1) + EditsOf(files \ {f})

\* an editor saves a source file (or creates it again)
Modify(f) ==
    /\ EditsOf(SrcFiles) < MaxEdits
    /\ src' = [src EXCEPT ![f] = [exists |-> TRUE, ver |-> @.ver + 1]]
    /\ UNCHANGED <<tool, idxLoc, idxDir, idx, man, bpc, bld, result, nbuilds, atStart, prevRun>>
    /\ UNCHANGED <<composeVars, diffVars, serverVars, callVars>>

\* a source file is removed
Delete(f) ==
    /\ src[f].exists
    /\ EditsOf(SrcFiles) < MaxEdits
    /\ src' = [src EXCEPT ![f] = [exists |-> FALSE, ver |-> @.ver + 1]]
    /\ UNCHANGED <<tool, idxLoc, idxDir, idx, man, bpc, bld, result, nbuilds, atStart, prevRun>>
    /\ UNCHANGED <<composeVars, diffVars, serverVars, callVars>>

\* between two builds the index file is removed (a cleanup, a lost disk);
\* its manifest stays; the files are no longer as a build left them, so the
\* report of the last build and the memory of the one before are dropped
RemoveIndex ==
    /\ bpc = "idle"
    /\ idx.exists
    /\ idx' = NoIndex
    /\ result' = NoResult
    /\ prevRun' = NoRun
    /\ UNCHANGED <<tool, idxLoc, idxDir, src, man, bpc, bld, nbuilds, atStart>>
    /\ UNCHANGED <<composeVars, diffVars, serverVars, callVars>>

\* args.manifest: the parser leaves it None when --manifest is not given
ManifestArgs == {ManifestFile, "None"}

\* cmd_build, lines 91-101: line 99 is getattr(args, "manifest", default), so
\* Path(None) raises TypeError outside the try when the argument is None;
\* otherwise the flags decide the branch
CliStart(incr, no_delete, manifest) ==
    /\ tool = "cli"
    /\ bpc = "idle"
    /\ nbuilds < MaxBuilds
    /\ nbuilds' = nbuilds + 1
    /\ prevRun' = LastRun
    /\ atStart' = [idx |-> idx, man |-> man, src |-> src]
    /\ bld' = [NoLocals EXCEPT !.incr = incr, !.no_delete = no_delete,
                               !.manifest = manifest]
    /\ IF manifest = "None"
       THEN /\ result' = [NoResult EXCEPT !.kind = "crash", !.incremental = incr,
                                          !.failedAt = "start"]
            /\ bpc' = "idle"
       ELSE /\ result' = NoResult
            /\ bpc' = IF incr /\ _is_jsonl(IndexFile) THEN "scan" ELSE "fopen"
    /\ UNCHANGED <<tool, idxLoc, idxDir, src, idx, man>>
    /\ UNCHANGED <<composeVars, diffVars, serverVars, callVars>>

\* a plausible slip: the early return does not look at the deleted set
CliSkipIgnoresDeleted(changed, deleted) == changed = {} /\ idx.exists

\* cmd_build, line 107: not changed and not deleted and idx_path.exists()
CliSkip(changed, deleted) == changed = {} /\ deleted = {} /\ idx.exists

\* cmd_build, lines 102-109: load, snapshot, diff, and the early return
IncrScan ==
    /\ bpc = "scan"
    /\ LET prev == _load_manifest
           curr == _snapshot
           changed == CliChanged(prev, curr)
           deleted == CliDeleted(prev, curr, bld.no_delete)
       IN /\ bld' = [bld EXCEPT !.prev = prev, !.curr = curr,
                                !.changed = changed, !.deleted = deleted]
          /\ IF CliSkip(changed, deleted)
             THEN /\ result' = [NoResult EXCEPT !.kind = "noop", !.ok = TRUE,
                                                !.incremental = TRUE,
                                                !.chunks = Len(idx.lines)]
                  /\ bpc' = "idle"
             ELSE /\ result' = result
                  /\ bpc' = "chunk"
    /\ UNCHANGED <<tool, idxLoc, idxDir, src, idx, man, nbuilds, atStart, prevRun>>
    /\ UNCHANGED <<composeVars, diffVars, serverVars, callVars>>

\* a plausible slip: the manifest is saved before the index is written
IncrChunkSavesManifest ==
    /\ bpc = "chunk"
    /\ bld' = IF bld.changed # {}
              THEN [bld EXCEPT !.parts_exists = TRUE,
                               !.parts = RecordsOf(IndexIterGiven(bld.changed))]
              ELSE bld
    /\ man' = [exists |-> TRUE, ok |-> TRUE, data |-> bld.curr, stamp |-> nbuilds]
    /\ bpc' = "merge"
    /\ UNCHANGED <<tool, idxLoc, idxDir, src, idx, result, nbuilds, atStart, prevRun>>
    /\ UNCHANGED <<composeVars, diffVars, serverVars, callVars>>

\* cmd_build, lines 111-115: build_index on the changed files into parts.jsonl
IncrChunk ==
    /\ bpc = "chunk"
    /\ bld' = IF bld.changed # {}
              THEN [bld EXCEPT !.parts_exists = TRUE,
                               !.parts = RecordsOf(IndexIterGiven(bld.changed))]
              ELSE bld
    /\ bpc' = "merge"
    /\ UNCHANGED <<tool, idxLoc, idxDir, src, idx, man, result, nbuilds, atStart, prevRun>>
    /\ UNCHANGED <<composeVars, diffVars, serverVars, callVars>>

\* _merge_jsonl, lines 62-86: the merged lines go to <index>.tmp; opening it
\* raises FileNotFoundError when the directory is missing (nothing makes it),
\* and cmd_build reports the error (line 135) after removing its tmpdir
IncrMerge ==
    /\ bpc = "merge"
    /\ IF idxDir
       THEN /\ LET tmp == _merge_jsonl(idx.exists, idx.lines, bld.parts_exists,
                                       bld.parts, bld.changed, bld.deleted)
               IN bld' = [bld EXCEPT !.tmp = tmp, !.count = Len(tmp)]
            /\ bpc' = "replace"
            /\ result' = result
       ELSE /\ bld' = [NoLocals EXCEPT !.incr = bld.incr, !.no_delete = bld.no_delete,
                                       !.manifest = bld.manifest]
            /\ bpc' = "idle"
            /\ result' = [NoResult EXCEPT !.kind = "error", !.incremental = TRUE,
                                          !.failedAt = "merge"]
    /\ UNCHANGED <<tool, idxLoc, idxDir, src, idx, man, nbuilds, atStart, prevRun>>
    /\ UNCHANGED <<composeVars, diffVars, serverVars, callVars>>

\* _merge_jsonl, line 87: tmp.replace(out_path)
IncrReplace ==
    /\ bpc = "replace"
    /\ idx' = [exists |-> TRUE, lines |-> bld.tmp, stamp |-> nbuilds]
    /\ bld' = bld
    /\ bpc' = "save"
    /\ UNCHANGED <<tool, idxLoc, idxDir, src, man, result, nbuilds, atStart, prevRun>>
    /\ UNCHANGED <<composeVars, diffVars, serverVars, callVars>>

\* cmd_build, lines 119-121: _save_manifest(manifest, curr) and the report
IncrSave ==
    /\ bpc = "save"
    /\ man' = [exists |-> TRUE, ok |-> TRUE, data |-> bld.curr, stamp |-> nbuilds]
    /\ bld' = bld
    /\ result' = [NoResult EXCEPT !.kind = "incr", !.ok = TRUE, !.incremental = TRUE,
                                  !.changed_files = Cardinality(bld.changed),
                                  !.deleted_files = Cardinality(bld.deleted),
                                  !.chunks = bld.count]
    /\ bpc' = "idle"
    /\ UNCHANGED <<tool, idxLoc, idxDir, src, idx, nbuilds, atStart, prevRun>>
    /\ UNCHANGED <<composeVars, diffVars, serverVars, callVars>>

\* build_index, lines 66-71: mkdir, open(index, "w") truncates, then the walk begins
FullOpen ==
    /\ bpc = "fopen"
    /\ idxDir' = TRUE
    /\ idx' = [exists |-> TRUE, lines |-> <<>>, stamp |-> nbuilds]
    /\ bld' = [bld EXCEPT !.todo = IndexIterFiles]
    /\ bpc' = "fwrite"
    /\ UNCHANGED <<tool, idxLoc, src, man, result, nbuilds, atStart, prevRun>>
    /\ UNCHANGED <<composeVars, diffVars, serverVars, callVars>>

\* build_index, lines 71-74: the chunks of the next file are written
FullWrite ==
    /\ bpc = "fwrite"
    /\ bld.todo # <<>>
    /\ idx' = [idx EXCEPT !.lines = @ \o RecordsOf(<<Head(bld.todo)>>)]
    /\ bld' = [bld EXCEPT !.todo = Tail(@)]
    /\ UNCHANGED <<tool, idxLoc, idxDir, src, man, bpc, result, nbuilds, atStart, prevRun>>
    /\ UNCHANGED <<composeVars, diffVars, serverVars, callVars>>

\* build_index, line 76: the file is closed and the index returned
FullClose ==
    /\ bpc = "fwrite"
    /\ bld.todo = <<>>
    /\ bld' = [bld EXCEPT !.count = Len(idx.lines)]
    /\ bpc' = IF tool = "lib" THEN "lsave" ELSE "fsave"
    /\ UNCHANGED <<tool, idxLoc, idxDir, src, idx, man, result, nbuilds, atStart, prevRun>>
    /\ UNCHANGED <<composeVars, diffVars, serverVars, callVars>>

\* cmd_build, lines 125-134: the manifest is refreshed from a new snapshot
FullSave ==
    /\ bpc = "fsave"
    /\ man' = IF _is_jsonl(IndexFile)
              THEN [exists |-> TRUE, ok |-> TRUE, data |-> _snapshot, stamp |-> nbuilds]
              ELSE man
    /\ result' = [NoResult EXCEPT !.kind = "full", !.ok = TRUE, !.chunks = bld.count]
    /\ bpc' = "idle"
    /\ UNCHANGED <<tool, idxLoc, idxDir, src, idx, bld, nbuilds, atStart, prevRun>>
    /\ UNCHANGED <<composeVars, diffVars, serverVars, callVars>>

(***************************************************************************)
(* incremental.py                                                          *)
(***************************************************************************)
\* incremental.py _iter_files: DEFAULT_INCLUDE_EXTS has .md and .json, not
\* .jsonl; DEFAULT_IGNORE_DIRS does not have .index
LibIterFiles == {f \in SrcFiles \cup (OwnFiles \ {IndexFile}) : IsFile(f)}

\* _file_info in mode "mtime"
_file_info(f) == [size |-> FileSize(f), mtime_ns |-> Content(f)]

\* the current manifest diff_tree computes, lines 89-94
LibCur == [f \in LibIterFiles |-> _file_info(f)]

\* incremental_build, lines 133-136
LibStart ==
    /\ tool = "lib"
    /\ bpc = "idle"
    /\ nbuilds < MaxBuilds
    /\ nbuilds' = nbuilds + 1
    /\ prevRun' = LastRun
    /\ atStart' = [idx |-> idx, man |-> man, src |-> src]
    /\ bld' = [NoLocals EXCEPT !.incr = TRUE, !.manifest = ManifestFile]
    /\ result' = NoResult
    /\ bpc' = "lscan"
    /\ UNCHANGED <<tool, idxLoc, idxDir, src, idx, man>>
    /\ UNCHANGED <<composeVars, diffVars, serverVars, callVars>>

\* incremental_build, lines 138-164: diff, skip or call the full build
LibScan ==
    /\ bpc = "lscan"
    /\ LET prev == _load_manifest
           cur == LibCur
           added == DiffAdded(prev, cur)
           modified == DiffModified(prev, cur)
           removed == DiffRemoved(prev, cur)
       IN /\ bld' = [bld EXCEPT !.prev = prev, !.curr = cur,
                                !.changed = added \cup modified, !.deleted = removed]
          /\ IF added = {} /\ modified = {} /\ removed = {} /\ idx.exists
             THEN /\ result' = [NoResult EXCEPT !.kind = "noop", !.ok = TRUE,
                                                !.incremental = TRUE, !.skipped = TRUE]
                  /\ bpc' = "idle"
             ELSE /\ result' = result
                  /\ bpc' = "fopen"
    /\ UNCHANGED <<tool, idxLoc, idxDir, src, idx, man, nbuilds, atStart, prevRun>>
    /\ UNCHANGED <<composeVars, diffVars, serverVars, callVars>>

\* incremental_build, lines 167-177: write_text on the manifest, then return
LibSave ==
    /\ bpc = "lsave"
    /\ man' = [exists |-> TRUE, ok |-> TRUE, data |-> bld.curr, stamp |-> nbuilds]
    /\ result' = [NoResult EXCEPT !.kind = "lib", !.ok = TRUE, !.incremental = TRUE,
                                  !.added = Cardinality(DiffAdded(bld.prev, bld.curr)),
                                  !.modified = Cardinality(DiffModified(bld.prev, bld.curr)),
                                  !.removed = Cardinality(bld.deleted)]
    /\ bpc' = "idle"
    /\ UNCHANGED <<tool, idxLoc, idxDir, src, idx, bld, nbuilds, atStart, prevRun>>
    /\ UNCHANGED <<composeVars, diffVars, serverVars, callVars>>

(***************************************************************************)
(* Failure.  An exception at a step ends the build: cmd_build reports it   *)
(* (line 135), incremental_build lets it pass to its caller.  The writer   *)
(* of a file opened with "w" leaves a prefix of what it wrote, the last    *)
(* line possibly cut.                                                      *)
(***************************************************************************)
Prefixes(lines) == {SubSeq(lines, 1, n) : n \in 0..Len(lines)}

Cut(lines) == Prefixes(lines) \cup {pre \o <<TornLine>> : pre \in Prefixes(lines)}

TornManifest == [exists |-> TRUE, ok |-> FALSE, data |-> <<>>, stamp |-> nbuilds]

\* what the files hold after the step at bpc is interrupted: a closed file
\* has every line written so far, a file left open any prefix of them
Interrupted(closed) ==
    /\ idx' \in IF bpc = "fwrite"
                THEN {[idx EXCEPT !.lines = ls] :
                         ls \in IF closed THEN {idx.lines, idx.lines \o <<TornLine>>}
                                          ELSE Cut(idx.lines)}
                ELSE {idx}
    /\ man' \in IF bpc = "lsave" THEN {man, TornManifest} ELSE {man}

\* the locals of a build that has ended: the flags it was started with
Ended == [NoLocals EXCEPT !.incr = bld.incr, !.no_delete = bld.no_delete,
                         !.manifest = bld.manifest]

\* an exception (OSError, MemoryError, ...) is raised at the current step
Fail ==
    /\ bpc # "idle"
    /\ Interrupted(TRUE)
    /\ result' = [NoResult EXCEPT !.kind = IF tool = "cli" THEN "error" ELSE "raised",
                                  !.incremental = bld.incr, !.failedAt = bpc]
    /\ bld' = Ended
    /\ bpc' = "idle"
    /\ UNCHANGED <<tool, idxLoc, idxDir, src, nbuilds, atStart, prevRun>>
    /\ UNCHANGED <<composeVars, diffVars, serverVars, callVars>>

\* the process is killed at the current step (a timeout of its caller)
Kill ==
    /\ bpc # "idle"
    /\ Interrupted(FALSE)
    /\ result' = [NoResult EXCEPT !.kind = "killed", !.incremental = bld.incr,
                                  !.failedAt = bpc]
    /\ bld' = Ended
    /\ bpc' = "idle"
    /\ UNCHANGED <<tool, idxLoc, idxDir, src, nbuilds, atStart, prevRun>>
    /\ UNCHANGED <<composeVars, diffVars, serverVars, callVars>>

NextBuild ==
    \/ \E f \in SrcFiles : Modify(f)
    \/ \E f \in SrcFiles : Delete(f)
    \/ RemoveIndex
    \/ \E incr \in BOOLEAN, no_delete \in BOOLEAN, manifest \in ManifestArgs :
          CliStart(incr, no_delete, manifest)
    \/ IncrScan
    \/ IncrChunk
    \/ IncrMerge
    \/ IncrReplace
    \/ IncrSave
    \/ FullOpen
    \/ FullWrite
    \/ FullClose
    \/ FullSave
    \/ LibStart
    \/ LibScan
    \/ LibSave
    \/ Fail
    \/ Kill

SpecBuild == InitBuild /\ [][NextBuild]_vars

(***************************************************************************)
(* Claims about the build.                                                 *)
(***************************************************************************)
\* what a reader that opens the index location gets
ReaderSees == [exists |-> idx.exists, lines |-> idx.lines]

\* the index write of the running build has completed
IndexWritten == bpc \in {"save", "fsave", "lsave"}

\* C2: at every moment while a build runs, a reader of the index location
\* sees the complete previous index or the complete new one, never an empty
\* or partly written file.
C2_AtomicIndexWrite ==
    bpc # "idle" =>
        \/ ReaderSees = [exists |-> atStart.idx.exists, lines |-> atStart.idx.lines]
        \/ IndexWritten

\* the part of C2 that holds: the incremental merge shows the previous index
\* until its replace
C2_MergeAtomic ==
    bpc \in {"scan", "chunk", "merge", "replace"} =>
        ReaderSees = [exists |-> atStart.idx.exists, lines |-> atStart.idx.lines]

\* the last two builds were incremental runs of the CLI with the same flags,
\* nothing interrupted them, and the source files are as the first found them
TwoIncrementalRuns ==
    /\ tool = "cli"
    /\ bpc = "idle"
    /\ prevRun.valid /\ prevRun.incr /\ prevRun.ok
    /\ bld.incr /\ bld.no_delete = prevRun.no_delete /\ bld.manifest = prevRun.manifest
    /\ result.kind \notin {"error", "killed"}
    /\ prevRun.src = src

\* C4: the second of two incremental builds with no change to the source
\* files between them reports changed_files=0 and deleted_files=0 and leaves
\* the index byte-identical.
C4_Idempotent ==
    TwoIncrementalRuns =>
        /\ result.ok
        /\ result.changed_files = 0
        /\ result.deleted_files = 0
        /\ idx.lines = prevRun.lines

\* the part of C4 that holds: the index lies outside the scanned paths
C4_IdempotentOutside ==
    TwoIncrementalRuns /\ idxLoc = "outside" =>
        /\ result.ok
        /\ result.changed_files = 0
        /\ result.deleted_files = 0
        /\ idx.lines = prevRun.lines

\* the build has gone past its diff
PastDiff ==
    \/ bpc \in {"chunk", "merge", "replace", "save"}
    \/ tool = "lib" /\ bpc \in {"fopen", "fwrite", "lsave"}

\* C5: an incremental build that finds nothing added, modified or removed,
\* with the index present, rebuilds nothing: index and manifest stay as they
\* were, no chunking happens, and the result reports zero changes (skipped in
\* incremental_build); a build that goes on has found a change or no index.
C5_NoOpBuild ==
    /\ result.kind = "noop" =>
          /\ bld.changed = {} /\ bld.deleted = {} /\ idx.exists
          /\ idx = atStart.idx
          /\ man = atStart.man
          /\ ~bld.parts_exists
          /\ result.changed_files = 0 /\ result.deleted_files = 0
          /\ tool = "lib" => result.skipped
    /\ PastDiff => bld.changed # {} \/ bld.deleted # {} \/ ~atStart.idx.exists

C5_Witness ==
    /\ result.kind = "noop"
    /\ tool = "cli"
    /\ nbuilds = 2
    /\ Len(idx.lines) > 0

\* C6: when chunking, merging or writing the index raises, the manifest is
\* as the build found it; it is written only after the index write has
\* completed, so the files the next diff reads are unchanged too.
C6_FailedBuildKeepsManifest ==
    /\ ~IndexWritten /\ bpc # "idle" => man = atStart.man
    /\ /\ result.kind \in {"error", "raised"}
       /\ result.failedAt \in {"chunk", "merge", "replace", "fopen", "fwrite"}
       => /\ man = atStart.man
          /\ result.incremental /\ tool = "cli" => idx = atStart.idx

C6_Witness ==
    /\ result.kind = "error"
    /\ result.failedAt \in {"chunk", "merge", "replace"}
    /\ man.exists
    /\ bpc = "idle"
    /\ _load_manifest # _snapshot

\* a record without its serialization
Data(line) == [path |-> line.path, start_line |-> line.start_line,
               end_line |-> line.end_line, text |-> line.text]

DataOf(lines) == [i \in 1..Len(lines) |-> Data(lines[i])]

\* the records of the previous index the merge must carry over
Carried == SelectSeq(atStart.idx.lines,
                     LAMBDA line : line.ok /\ line.path \notin bld.changed \cup bld.deleted)

\* C7: the merge writes the parseable previous records whose path is neither
\* changed nor deleted, in their order, then the fresh records of the changed
\* files; no previous record of a changed or deleted path survives, and the
\* count is the number of records written.
C7_MergeSequence ==
    bpc \in {"replace", "save"} =>
        /\ DataOf(bld.tmp) = DataOf(Carried) \o DataOf(bld.parts)
        /\ \A i \in 1..Len(bld.parts) : bld.parts[i].path \in bld.changed
        /\ \A i \in 1..Len(Carried) : bld.tmp[i].path \notin bld.changed \cup bld.deleted
        /\ bld.count = Len(bld.tmp)
        /\ bpc = "save" => idx.lines = bld.tmp

C7_Witness ==
    /\ bpc = "save"
    /\ Carried # <<>>
    /\ bld.parts # <<>>
    /\ bld.deleted # {}
    /\ \E i \in 1..Len(atStart.idx.lines) : atStart.idx.lines[i].path \in bld.deleted

\* an incremental build of the command line has replaced the index
Merged == tool = "cli" /\ (bpc = "save" \/ result.kind = "incr")

\* the parseable records the build found whose file is not in its snapshot
Orphans == SelectSeq(atStart.idx.lines,
                     LAMBDA line : line.ok /\ line.path \notin DOMAIN bld.curr)

\* C19: with the no-delete policy an incremental build keeps every record
\* of a file absent from the current snapshot; without it the index it
\* writes has no record of a file that is in the previous manifest and absent
\* from the current snapshot.
C19_NoDelete ==
    Merged =>
        IF bld.no_delete
        THEN /\ bld.deleted = {}
             /\ \A i \in 1..Len(Orphans) :
                   \E j \in 1..Len(idx.lines) : Data(idx.lines[j]) = Data(Orphans[i])
             /\ DataOf(SelectSeq(idx.lines, LAMBDA line : line.path \notin DOMAIN bld.curr))
                   = DataOf(Orphans)
        ELSE /\ bld.deleted = DOMAIN bld.prev \ DOMAIN bld.curr
             /\ \A j \in 1..Len(idx.lines) :
                   idx.lines[j].path \notin DOMAIN bld.prev \ DOMAIN bld.curr

C19_Witness ==
    /\ Merged
    /\ result.kind = "incr"
    /\ bld.no_delete
    /\ \E i \in 1..Len(Orphans) :
          /\ Orphans[i].path \in DOMAIN bld.prev
          /\ \E j \in 1..Len(idx.lines) : Data(idx.lines[j]) = Data(Orphans[i])

\* the other half is reached too: a build without the policy drops records
C19_Dropped ==
    /\ Merged
    /\ ~bld.no_delete
    /\ \E i \in 1..Len(Orphans) : Orphans[i].path \in DOMAIN bld.prev

\* the records of the index, without their serialization
IndexData == {Data(idx.lines[i]) : i \in 1..Len(idx.lines)}

\* the chunks of a source file as it is now
ChunksOf(f) == {Data(FileRecords(f)[i]) : i \in 1..Len(FileRecords(f))}

\* an incremental build of the command line has just reported success, and
\* no source file was touched since it began
IncrSucceeded ==
    /\ tool = "cli"
    /\ bpc = "idle"
    /\ result.ok
    /\ result.kind \in {"incr", "noop"}
    /\ src = atStart.src

\* C26: after an incremental build that reports success the index holds the
\* chunks of every source file under the given paths, whatever the state the
\* build started from.
C26_IndexComplete ==
    IncrSucceeded =>
        \A f \in SrcFiles : src[f].exists => ChunksOf(f) \subseteq IndexData

\* the part of C26 that holds: the build found an index that held the chunks
\* of every file its manifest listed, or found no manifest
C26_IndexCompleteFromComplete ==
    /\ IncrSucceeded
    /\ \/ ~atStart.man.exists
       \/ /\ atStart.idx.exists
          /\ \A f \in SrcFiles \cap DOMAIN bld.prev :
                f \notin bld.changed =>
                   ChunksOf(f) \subseteq {Data(atStart.idx.lines[i]) :
                                             i \in 1..Len(atStart.idx.lines)}
    => \A f \in SrcFiles : src[f].exists => ChunksOf(f) \subseteq IndexData

\* the state C26 names: the build found a manifest and no index
C26_MissingIndex ==
    /\ IncrSucceeded
    /\ result.kind = "incr"
    /\ atStart.man.exists
    /\ ~atStart.idx.exists
    /\ bld.changed = {}
    /\ idx.lines = <<>>

\* the index holds a record of a source file that is not in the tree
OrphanIn(lines) ==
    \E i \in 1..Len(lines) :
        lines[i].ok /\ lines[i].path \in SrcFiles /\ ~src[lines[i].path].exists

\* C27: once an incremental build without the no-delete policy succeeds, the
\* index holds no record of a file absent from the tree, whatever the builds
\* before it were.
C27_NoOrphans ==
    IncrSucceeded /\ ~bld.no_delete => ~OrphanIn(idx.lines)

\* the part of C27 that holds: every record the build found was of a file
\* listed in the manifest it loaded
C27_NoOrphansOfListed ==
    /\ IncrSucceeded
    /\ ~bld.no_delete
    /\ result.kind = "incr"
    /\ \A i \in 1..Len(atStart.idx.lines) :
          atStart.idx.lines[i].ok => atStart.idx.lines[i].path \in DOMAIN bld.prev
    => ~OrphanIn(idx.lines)

\* a file was deleted, its manifest entry is not there, and the build that
\* succeeds without the policy keeps its records
C27_LostEntry ==
    /\ IncrSucceeded
    /\ ~bld.no_delete
    /\ result.kind = "incr"
    /\ bld.deleted = {}
    /\ OrphanIn(idx.lines)

\* the files a build writes
BuildWrites == {IndexFile, ManifestFile}

\* C28: the files the build itself writes are never counted as changed
\* source files by an incremental build and never chunked into the index,
\* wherever the index lies.
C28_OwnFilesNotSources ==
    /\ bld.changed \cap BuildWrites = {}
    /\ \A i \in 1..Len(idx.lines) : idx.lines[i].path \notin BuildWrites

\* the part of C28 that holds: the index lies outside the scanned paths
C28_OwnFilesOutside ==
    idxLoc = "outside" =>
        /\ bld.changed \cap BuildWrites = {}
        /\ \A i \in 1..Len(idx.lines) : idx.lines[i].path \notin BuildWrites

\* the default location: the manifest under .index is chunked into the index
C28_ManifestChunked ==
    /\ idxLoc = "dotindex"
    /\ tool = "cli"
    /\ result.kind = "incr"
    /\ ManifestFile \in bld.changed
    /\ \E i \in 1..Len(idx.lines) : idx.lines[i].path = ManifestFile

\* a build has just reported success
BuildSucceeded == bpc = "idle" /\ result.ok

\* the fingerprint a build of the tool would take of f now
Fingerprint(f) ==
    IF tool = "lib" THEN _file_info(f) ELSE <<Content(f), FileSize(f)>>

\* the saved manifest lists f with the fingerprint f has now
ManifestMatches(f) ==
    /\ man.exists
    /\ man.ok
    /\ f \in DOMAIN man.data
    /\ man.data[f] = Fingerprint(f)

\* f was modified after the last build began
ModifiedSince(f) == src[f].exists /\ src[f].ver > atStart.src[f].ver

\* C29: a source file modified while a build runs is afterwards either in
\* the index with its latest content, or listed in the manifest with a
\* fingerprint that differs from its current one; never stale in the index
\* with a matching manifest entry.
C29_NeverStaleAndMatching ==
    BuildSucceeded =>
        \A f \in SrcFiles :
           ModifiedSince(f) => ChunksOf(f) \subseteq IndexData \/ ~ManifestMatches(f)

\* the part of C29 that holds: the build is incremental
C29_IncrementalNeverStale ==
    BuildSucceeded /\ result.kind # "full" =>
        \A f \in SrcFiles :
           ModifiedSince(f) => ChunksOf(f) \subseteq IndexData \/ ~ManifestMatches(f)

\* a full build chunked f, f was modified, and the manifest took its snapshot
C29_StaleAndMatching ==
    /\ BuildSucceeded
    /\ result.kind = "full"
    /\ \E f \in SrcFiles :
          ModifiedSince(f) /\ ManifestMatches(f) /\ ~(ChunksOf(f) \subseteq IndexData)

\* with the paths given once, as in every build of this specification, no
\* two records of the index have the same path and start_line
C30_NoDuplicatesOnePath ==
    \A i, j \in 1..Len(idx.lines) :
       i < j /\ idx.lines[i].ok /\ idx.lines[j].ok =>
          ~(idx.lines[i].path = idx.lines[j].path
            /\ idx.lines[i].start_line = idx.lines[j].start_line)

(***************************************************************************)
(* Single calls of the library's functions: one call with arguments drawn  *)
(* from bounded sets, and its return.                                      *)
(***************************************************************************)
TrimCalls ==
    {[op |-> "_trim", text |-> t, limit |-> L] :
        t \in Str(MaxTrimLen), L \in 0..MaxSnip}

\* retrieve(query, k, index_path, snippet_max_chars) over the chunks the
\* index holds; limit 0 stands for a snippet_max_chars of 0 or None
RetrieveCalls ==
    {[op |-> "retrieve", query |-> q, k |-> kk, chunks |-> c, limit |-> L] :
        q \in Questions, kk \in 0..MaxK,
        c \in Indexes \cup {<<ChunkAt(1, t)>> : t \in Str(MaxTrimLen)},
        L \in 0..MaxSnip}

\* _chunk_file on a file of n lines: with the defaults, and with small
\* parameters (an overlap as large as the chunk among them); read is FALSE
\* for a file above MAX_FILE_BYTES or one whose stat or read raises
ChunkCalls ==
    {[op |-> "_chunk_file", n |-> n, read |-> r, lines_per_chunk |-> CHUNK_LINES,
      overlap |-> CHUNK_OVERLAP] : n \in 0..MaxLines, r \in BOOLEAN}
    \cup {[op |-> "_chunk_file", n |-> n, read |-> r, lines_per_chunk |-> L,
           overlap |-> ov] :
             n \in 0..MaxSmallLines, r \in BOOLEAN,
             L \in 1..MaxChunkSize, ov \in 0..MaxOverlap}

\* one line of an index file, by what json.loads and Chunk(**d) make of it:
\* blank after strip; text that is not JSON; JSON that is not an object; an
\* object with the four keys of Chunk, with one missing, or with one more.
\* typed says the values have the types of a chunk record (path and text
\* strings, the line numbers integers); id tells the records apart.
NotRecord(json) == [json |-> json, keys |-> "none", typed |-> FALSE, id |-> 0]

IndexLines ==
    {NotRecord(j) : j \in {"blank", "text", "array"}}
    \cup {[json |-> "object", keys |-> ks, typed |-> t, id |-> i] :
             ks \in {"four", "missing", "extra"}, t \in BOOLEAN, i \in 1..MaxRecIds}

\* the files load_index may be given: a missing location, or a file of lines
LoadCalls ==
    {[op |-> "load_index", exists |-> FALSE, lines |-> <<>>]}
    \cup {[op |-> "load_index", exists |-> TRUE, lines |-> ls] :
             ls \in UNION {[1..n -> IndexLines] : n \in 0..MaxLoadLines}}

\* json.loads(line) returns and Chunk(**d) accepts the result: a mapping
\* with exactly the keys path, start_line, end_line, text, of any values
Loads(line) == line.json = "object" /\ line.keys = "four"

\* the Chunk built from a line: its values are the line's, whatever their types
ChunkOf(line) == [id |-> line.id, typed |-> line.typed]

\* load_index, lines 85-93: the loop over the lines of the file
RECURSIVE LoadLoop(_)
LoadLoop(lines) ==
    IF lines = <<>> THEN <<>>
    ELSE (IF Loads(lines[1]) THEN <<ChunkOf(lines[1])>> ELSE <<>>)
            \o LoadLoop(Tail(lines))

\* load_index: raise when the location is missing, the chunks otherwise
load_index(exists, lines) ==
    IF ~exists
    THEN [done |-> TRUE, raised |-> "FileNotFoundError", value |-> <<>>]
    ELSE [done |-> TRUE, raised |-> "none", value |-> LoadLoop(lines)]

\* the characters U+0022 (quotation mark) and U+005C (reverse solidus)
DQuote == "U+0022"
Backslash == "U+005C"

\* the characters of a text or path that is written and read back: a letter,
\* the two characters JSON escapes with a backslash, a control character and
\* a character outside ASCII
RtChars == {"n", DQuote, Backslash, NL, Ellipsis}
RtStr(n) == UNION {[1..m -> RtChars] : m \in 0..n}

\* a plausible slip: the backslash is written as it is
EscapeCharRaw(c, ensure_ascii) ==
    CASE c = DQuote -> <<Backslash, DQuote>>
      [] c = NL -> <<Backslash, "n">>
      [] c = Ellipsis /\ ensure_ascii -> <<Backslash, "u", "2", "0", "2", "6">>
      [] OTHER -> <<c>>

\* json.dumps on one character of a string
EscapeChar(c, ensure_ascii) ==
    CASE c = DQuote -> <<Backslash, DQuote>>
      [] c = Backslash -> <<Backslash, Backslash>>
      [] c = NL -> <<Backslash, "n">>
      [] c = Ellipsis /\ ensure_ascii -> <<Backslash, "u", "2", "0", "2", "6">>
      [] OTHER -> <<c>>

\* json.dumps on a string
RECURSIVE EscapeStr(_, _)
EscapeStr(str, ensure_ascii) ==
    IF str = <<>> THEN <<>>
    ELSE EscapeChar(str[1], ensure_ascii) \o EscapeStr(Tail(str), ensure_ascii)

\* json.dumps on the dict of a chunk: build_index writes it with
\* ensure_ascii=False and the default separators, _merge_jsonl with the
\* default ensure_ascii=True and separators=(",", ":").  A key is written as
\* one element between its quotation marks.
dumps(obj, ensure_ascii, compact) ==
    LET item == IF compact THEN <<",">> ELSE <<",", " ">>
        key(name) == <<DQuote, name, DQuote, ":">> \o (IF compact THEN <<>> ELSE <<" ">>)
        string(v) == <<DQuote>> \o EscapeStr(v, ensure_ascii) \o <<DQuote>>
    IN <<"{">> \o key("path") \o string(obj.path) \o item
          \o key("start_line") \o IntToStr(obj.start_line) \o item
          \o key("end_line") \o IntToStr(obj.end_line) \o item
          \o key("text") \o string(obj.text) \o <<"}">>

NoParse == [ok |-> FALSE, value |-> <<>>, next |-> 0]

\* json.loads inside a string, from the character after its opening mark
RECURSIVE ParseString(_, _, _)
ParseString(str, i, acc) ==
    IF i > Len(str) THEN NoParse
    ELSE IF str[i] = DQuote THEN [ok |-> TRUE, value |-> acc, next |-> i + 1]
    ELSE IF str[i] = NL THEN NoParse
    ELSE IF str[i] = Backslash
    THEN IF i + 1 > Len(str) THEN NoParse
         ELSE IF str[i + 1] \in {DQuote, Backslash}
         THEN ParseString(str, i + 2, Append(acc, str[i + 1]))
         ELSE IF str[i + 1] = "n" THEN ParseString(str, i + 2, Append(acc, NL))
         ELSE IF /\ str[i + 1] = "u"
                 /\ i + 5 <= Len(str)
                 /\ SubSeq(str, i + 2, i + 5) = <<"2", "0", "2", "6">>
         THEN ParseString(str, i + 6, Append(acc, Ellipsis))
         ELSE NoParse
    ELSE ParseString(str, i + 1, Append(acc, str[i]))

\* json.loads on a number: the digits from i on
RECURSIVE ParseInt(_, _, _)
ParseInt(str, i, acc) ==
    IF i <= Len(str) /\ str[i] \in DigitChars
    THEN ParseInt(str, i + 1,
                  10 * acc + (CHOOSE v \in 0..9 : IntToStr(v) = <<str[i]>>))
    ELSE [ok |-> TRUE, value |-> acc, next |-> i]

\* the whitespace json.loads skips between tokens
RECURSIVE SkipWs(_, _)
SkipWs(str, i) ==
    IF i <= Len(str) /\ str[i] \in Whitespace THEN SkipWs(str, i + 1) ELSE i

\* json.loads on the members of an object, from i on: the pairs read
RECURSIVE ParseMembers(_, _, _)
ParseMembers(str, i, acc) ==
    LET a == SkipWs(str, i)
    IN IF a > Len(str) \/ str[a] # DQuote THEN NoParse
       ELSE LET ky == ParseString(str, a + 1, <<>>)
                b == SkipWs(str, ky.next)
            IN IF ~ky.ok \/ b > Len(str) \/ str[b] # ":" THEN NoParse
               ELSE LET c == SkipWs(str, b + 1)
                        v == IF c > Len(str) THEN NoParse
                             ELSE IF str[c] = DQuote THEN ParseString(str, c + 1, <<>>)
                             ELSE IF str[c] \in DigitChars THEN ParseInt(str, c, 0)
                             ELSE NoParse
                        e == SkipWs(str, v.next)
                        pairs == Append(acc, [key |-> ky.value, value |-> v.value])
                    IN IF ~v.ok \/ e > Len(str) THEN NoParse
                       ELSE IF str[e] = "," THEN ParseMembers(str, e + 1, pairs)
                       ELSE IF str[e] = "}" /\ SkipWs(str, e + 1) > Len(str)
                       THEN [ok |-> TRUE, value |-> pairs, next |-> e + 1]
                       ELSE NoParse

\* json.loads on a line that holds an object
loads(line) ==
    LET a == SkipWs(line, 1)
    IN IF a > Len(line) \/ line[a] # "{" THEN NoParse
       ELSE ParseMembers(line, a + 1, <<>>)

ChunkKeys == {<<"path">>, <<"start_line">>, <<"end_line">>, <<"text">>}

\* the value read for a key
Member(pairs, name) ==
    pairs[CHOOSE i \in 1..Len(pairs) : pairs[i].key = <<name>>].value

\* Chunk(**d): accepted when the keys are exactly the four fields
IsChunkDict(pairs) ==
    /\ Len(pairs) = 4
    /\ {pairs[i].key : i \in 1..Len(pairs)} = ChunkKeys

ChunkFrom(pairs) ==
    [path |-> Member(pairs, "path"), start_line |-> Member(pairs, "start_line"),
     end_line |-> Member(pairs, "end_line"), text |-> Member(pairs, "text")]

\* build_index, lines 69-74: one line per chunk
RECURSIVE WriteIndex(_)
WriteIndex(chunks) ==
    IF chunks = <<>> THEN <<>>
    ELSE dumps(chunks[1], FALSE, FALSE) \o <<NL>> \o WriteIndex(Tail(chunks))

\* the lines of a text file as iteration gives them, without their newline
FileLines(file) ==
    LET parts == Split(file, <<NL>>)
    IN IF parts[Len(parts)] = <<>> THEN SubSeq(parts, 1, Len(parts) - 1) ELSE parts

\* _merge_jsonl, lines 67-78, with nothing changed or deleted: each line that
\* parses and has a path is written again
RECURSIVE RewriteLines(_)
RewriteLines(lines) ==
    IF lines = <<>> THEN <<>>
    ELSE LET d == loads(lines[1])
             keep == d.ok /\ IsChunkDict(d.value) /\ Member(d.value, "path") # <<>>
         IN (IF keep THEN dumps(ChunkFrom(d.value), TRUE, TRUE) \o <<NL>> ELSE <<>>)
               \o RewriteLines(Tail(lines))

\* load_index, lines 85-93, on the characters of the file
RECURSIVE ReadLines(_)
ReadLines(lines) ==
    IF lines = <<>> THEN <<>>
    ELSE LET d == loads(lines[1])
         IN (IF d.ok /\ IsChunkDict(d.value) THEN <<ChunkFrom(d.value)>> ELSE <<>>)
               \o ReadLines(Tail(lines))

\* the chunks _chunk_file may emit for one file: a path that is not empty,
\* any text, line numbers of one or of three digits
RtChunks(len) ==
    {[path |-> pth, start_line |-> st, end_line |-> st + 1, text |-> t] :
        pth \in RtStr(1) \ {<<>>}, st \in {1, 201}, t \in RtStr(len)}

\* a chunk sequence written by a full build, rewritten or not by a merge that
\* finds nothing changed, and loaded
WriteLoadCalls ==
    {[op |-> "write_load", chunks |-> c, merged |-> m] :
        c \in {<<>>} \cup {<<ch>> : ch \in RtChunks(MaxRtLen)}
                \cup {<<ch1, ch2>> : ch1 \in RtChunks(0) \cup RtChunks(1),
                                     ch2 \in {[path |-> <<"n">>, start_line |-> 1,
                                               end_line |-> 2, text |-> t] :
                                                 t \in RtStr(1)}},
        m \in BOOLEAN}

\* the words of a scored chunk: two spellings of one query term, another
\* query term, and a word no query holds
Words == {<<"a">>, <<"A">>, <<"b">>, <<"c">>}
Docs == UNION {[1..m -> Words] : m \in 0..MaxDocLen}

\* _bm25_scores on a corpus of two chunks, given by their words, and a query
\* of one term, of two terms, or of one term twice
Bm25Calls ==
    {[op |-> "_bm25_scores", docs |-> <<d1, d2>>, query |-> q] :
        d1 \in Docs, d2 \in Docs,
        q \in {<<"a">>, <<"a", " ", "b">>, <<"a", " ", "a">>}}

\* a small tree for the paths given to build_index: a directory with a file
\* of two chunks, a file that is not indexed and a subdirectory with a file
\* of one chunk; "missing" names nothing
PathArgs == {"docs", "docs/sub", "docs/a.md", "docs/sub/b.md", "docs/x.bin", "missing"}
is_dir(p) == p \in {"docs", "docs/sub"}
is_file(p) == p \in {"docs/a.md", "docs/sub/b.md", "docs/x.bin"}
InExts(p) == p \in {"docs/a.md", "docs/sub/b.md"}
LinesOf(p) == IF p = "docs/a.md" THEN CHUNK_LINES + 1 ELSE 1

\* os.walk(p) with the files of each directory, top down
os_walk(p) ==
    CASE p = "docs" -> <<"docs/a.md", "docs/x.bin", "docs/sub/b.md">>
      [] p = "docs/sub" -> <<"docs/sub/b.md">>
      [] OTHER -> <<>>

\* index.py _iter_files, lines 28-41: each given path in turn, a file by
\* its extension, a directory by its walk; nothing remembers what was yielded
RECURSIVE _iter_files(_)
_iter_files(paths) ==
    IF paths = <<>> THEN <<>>
    ELSE LET p == Head(paths)
             here == IF is_file(p)
                     THEN (IF InExts(p) THEN <<p>> ELSE <<>>)
                     ELSE IF is_dir(p) THEN SelectSeq(os_walk(p), InExts)
                     ELSE <<>>
         IN here \o _iter_files(Tail(paths))

\* the records of one file: its path on each range of _chunk_file
GivenRecords(p) ==
    LET rs == _chunk_file(LinesOf(p), CHUNK_LINES, CHUNK_OVERLAP)
    IN [i \in 1..Len(rs) |->
          [path |-> p, start_line |-> rs[i].start_line, end_line |-> rs[i].end_line]]

\* index.py build_index, lines 65-76: the lines written, file after file
RECURSIVE WriteFiles(_)
WriteFiles(files) ==
    IF files = <<>> THEN <<>>
    ELSE GivenRecords(Head(files)) \o WriteFiles(Tail(files))

build_index(paths) == WriteFiles(_iter_files(paths))

BuildCalls ==
    {[op |-> "build_index", paths |-> ps] :
        ps \in UNION {[1..m -> PathArgs] : m \in 0..MaxPaths}}

\* a small tree for the roots given to diff_tree, every path resolved and
\* written as the sequence of its parts: two directories side by side, one
\* of them with a subdirectory, files of the same name in all three, and a
\* root that does not exist
RootArgs == {<<"r1">>, <<"r2">>, <<"r2", "sub">>, <<"missing">>}
LibFiles ==
    <<(<<"r1", "a.md">>), (<<"r2", "a.md">>), (<<"r2", "b.md">>), (<<"r2", "sub", "a.md">>)>>

\* p.relative_to(root) succeeds: root is p or one of its parents
IsUnder(p, root) ==
    Len(root) <= Len(p) /\ SubSeq(p, 1, Len(root)) = root

\* incremental.py _iter_files, lines 30-45, on resolved roots: the walk of
\* each root that exists, one root after the other
RECURSIVE LibWalkRoots(_)
LibWalkRoots(roots) ==
    IF roots = <<>> THEN <<>>
    ELSE LET root == Head(roots)
         IN SelectSeq(LibFiles, LAMBDA p : IsUnder(p, root)) \o LibWalkRoots(Tail(roots))

\* incremental.py _norm_rel, lines 15-25: the path relative to the first
\* root it lies under, the resolved path itself under none; the key is the
\* sequence of the parts that as_posix joins with a slash
RECURSIVE _norm_rel(_, _)
_norm_rel(path, roots) ==
    IF roots = <<>> THEN path
    ELSE IF IsUnder(path, Head(roots))
         THEN SubSeq(path, Len(Head(roots)) + 1, Len(path))
         ELSE _norm_rel(path, Tail(roots))

\* diff_tree, lines 91-94: cur[key] = _file_info(f) for each file in turn;
\* the information of a file is written as the file it was taken from
RECURSIVE DiffCur(_, _, _)
DiffCur(files, roots, cur) ==
    IF files = <<>> THEN cur
    ELSE LET f == Head(files)
             key == _norm_rel(f, roots)
         IN DiffCur(Tail(files), roots,
                    [x \in DOMAIN cur \cup {key} |-> IF x = key THEN f ELSE cur[x]])

\* diff_tree, lines 79-94: the files found, the key of each, and cur
diff_tree(roots) ==
    LET files == LibWalkRoots(roots)
    IN [files |-> files,
        keys |-> [i \in 1..Len(files) |-> _norm_rel(files[i], roots)],
        cur |-> DiffCur(files, roots, <<>>)]

DiffTreeCalls ==
    {[op |-> "diff_tree", roots |-> rs] :
        rs \in UNION {[1..m -> RootArgs] : m \in 0..MaxRoots}}

Returned(v) == [done |-> TRUE, raised |-> "none", value |-> v]

InitCalls ==
    /\ ComposeIdle
    /\ DiffIdle
    /\ ServerIdle
    /\ BuildIdle
    /\ ret = NoRet
    /\ \/ call \in TrimCalls
       \/ call \in RetrieveCalls
       \/ call \in ChunkCalls
       \/ call \in LoadCalls
       \/ call \in WriteLoadCalls
       \/ call \in Bm25Calls
       \/ call \in BuildCalls
       \/ call \in DiffTreeCalls

\* compose.py _trim, lines 18-21
CallTrim ==
    /\ call.op = "_trim"
    /\ ~ret.done
    /\ ret' = Returned(_trim(call.text, call.limit))
    /\ UNCHANGED call
    /\ UNCHANGED <<composeVars, diffVars, serverVars, buildVars>>

\* retrieve.py retrieve, lines 80-100
CallRetrieve ==
    /\ call.op = "retrieve"
    /\ ~ret.done
    /\ ret' = Returned(retrieve(call.query, call.k, call.chunks, call.limit))
    /\ UNCHANGED call
    /\ UNCHANGED <<composeVars, diffVars, serverVars, buildVars>>

\* index.py _chunk_file: nothing for a file it does not read (lines 45-50),
\* the line ranges of the chunks otherwise (lines 51-62)
CallChunkFile ==
    /\ call.op = "_chunk_file"
    /\ ~ret.done
    /\ ret' = Returned(IF call.read
                       THEN _chunk_file(call.n, call.lines_per_chunk, call.overlap)
                       ELSE <<>>)
    /\ UNCHANGED call
    /\ UNCHANGED <<composeVars, diffVars, serverVars, buildVars>>

\* index.py load_index, lines 79-94
CallLoadIndex ==
    /\ call.op = "load_index"
    /\ ~ret.done
    /\ ret' = load_index(call.exists, call.lines)
    /\ UNCHANGED call
    /\ UNCHANGED <<composeVars, diffVars, serverVars, buildVars>>

\* build_index writes the chunks, _merge_jsonl rewrites them when the call
\* says so, load_index reads them
CallWriteLoad ==
    /\ call.op = "write_load"
    /\ ~ret.done
    /\ LET written == WriteIndex(call.chunks)
           file == IF call.merged THEN RewriteLines(FileLines(written)) ELSE written
       IN ret' = Returned(ReadLines(FileLines(file)))
    /\ UNCHANGED call
    /\ UNCHANGED <<composeVars, diffVars, serverVars, buildVars>>

\* retrieve.py _bm25_scores, lines 26-63, on chunks whose text is the
\* words joined by a space
CallBm25 ==
    /\ call.op = "_bm25_scores"
    /\ ~ret.done
    /\ ret' = Returned(_bm25_scores(
                  [i \in 1..Len(call.docs) |-> ChunkAt(i, join(<<" ">>, call.docs[i]))],
                  call.query))
    /\ UNCHANGED call
    /\ UNCHANGED <<composeVars, diffVars, serverVars, buildVars>>

\* index.py build_index, lines 65-76, on the given paths
CallBuildIndex ==
    /\ call.op = "build_index"
    /\ ~ret.done
    /\ ret' = Returned(build_index(call.paths))
    /\ UNCHANGED call
    /\ UNCHANGED <<composeVars, diffVars, serverVars, buildVars>>

\* incremental.py diff_tree, lines 79-94, on the given roots
CallDiffTree ==
    /\ call.op = "diff_tree"
    /\ ~ret.done
    /\ ret' = Returned(diff_tree(call.roots))
    /\ UNCHANGED call
    /\ UNCHANGED <<composeVars, diffVars, serverVars, buildVars>>

NextCalls ==
    \/ CallTrim
    \/ CallRetrieve
    \/ CallChunkFile
    \/ CallLoadIndex
    \/ CallWriteLoad
    \/ CallBm25
    \/ CallBuildIndex
    \/ CallDiffTree

SpecCalls == InitCalls /\ [][NextCalls]_vars

\* out is text cut to the budget L: text itself when it fits, otherwise the
\* first L-1 characters without their trailing whitespace, then one ellipsis
TrimmedTo(text, L, out) ==
    /\ Len(out) <= L
    /\ IF Len(text) <= L THEN out = text
       ELSE \E n \in 0..(L - 1) :
               /\ out = SubSeq(text, 1, n) \o <<Ellipsis>>
               /\ n > 0 => text[n] \notin Whitespace
               /\ \A i \in (n + 1)..(L - 1) : text[i] \in Whitespace

\* the chunk of the call a result was made from (paths are distinct)
ChunkPos(r) == CHOOSE i \in 1..Len(call.chunks) : call.chunks[i].path = r.path

\* C14: for every text and every snippet budget L >= 1, _trim and the trim
\* inside retrieve return the text unchanged when it has at most L
\* characters, and otherwise its first L-1 characters without trailing
\* whitespace followed by one ellipsis: never more than L characters.
C14_Trim ==
    ret.done =>
        /\ (call.op = "_trim" /\ call.limit >= 1) =>
              TrimmedTo(call.text, call.limit, ret.value)
        /\ (call.op = "retrieve" /\ call.limit >= 1) =>
              \A r \in 1..Len(ret.value) :
                 TrimmedTo(call.chunks[ChunkPos(ret.value[r])].text, call.limit,
                           ret.value[r].text)

C14_Witness ==
    /\ ret.done
    /\ call.op = "_trim"
    /\ call.limit >= 2
    /\ Len(call.text) > call.limit
    /\ call.text[call.limit - 1] \in Whitespace
    /\ Len(ret.value) < call.limit

\* C15: retrieve returns the first min(N, max(1, k)) chunks of the index
\* stably sorted by descending score: scores never increase along the
\* result, chunks of equal score come in index order, no chunk left out
\* should come before a returned one, and an empty index returns nothing.
C15_RankedOrder ==
    (ret.done /\ call.op = "retrieve") =>
        LET out == ret.value
            scores == _bm25_scores(call.chunks, call.query)
            N == Len(call.chunks)
            pos == [r \in 1..Len(out) |-> ChunkPos(out[r])]
            Before(i, j) == scores[i] > scores[j] \/ (scores[i] = scores[j] /\ i < j)
        IN /\ Len(out) = Min(N, Max(1, call.k))
           /\ \A r \in 1..Len(out) :
                 /\ out[r].score = scores[pos[r]]
                 /\ out[r].start_line = call.chunks[pos[r]].start_line
                 /\ out[r].end_line = call.chunks[pos[r]].end_line
           /\ \A r, q \in 1..Len(out) : r < q => Before(pos[r], pos[q])
           /\ \A i \in 1..N :
                 (\A r \in 1..Len(out) : pos[r] # i) =>
                    \A r \in 1..Len(out) : Before(pos[r], i)

C15_Witness ==
    /\ ret.done
    /\ call.op = "retrieve"
    /\ Len(ret.value) = 2
    /\ ret.value[1].score = ret.value[2].score
    /\ ret.value[1].score > 0
    /\ ret.value[1].path = IndexPaths[1]

\* the call chunked a file with the default size 200 and overlap 40
DefaultChunking ==
    /\ ret.done
    /\ call.op = "_chunk_file"
    /\ call.read
    /\ call.lines_per_chunk = CHUNK_LINES
    /\ call.overlap = CHUNK_OVERLAP

\* C16: the chunks of a file of n > 0 lines that _chunk_file reads cover
\* every line 1..n with no gap, whatever the chunk size and the overlap: the
\* first starts at 1, the last ends at n, each has
\* 1 <= start_line <= end_line <= n, and each after the first starts no later
\* than one line after the end of the one before; a file of no lines has no
\* chunk.
C16_Coverage ==
    (ret.done /\ call.op = "_chunk_file" /\ call.read) =>
        LET out == ret.value
            n == call.n
        IN IF n = 0 THEN out = <<>>
           ELSE /\ Len(out) >= 1
                /\ out[1].start_line = 1
                /\ out[Len(out)].end_line = n
                /\ \A i \in 1..Len(out) :
                      /\ 1 <= out[i].start_line
                      /\ out[i].start_line <= out[i].end_line
                      /\ out[i].end_line <= n
                /\ \A i \in 2..Len(out) : out[i].start_line <= out[i - 1].end_line + 1
                /\ \A line \in 1..n :
                      \E i \in 1..Len(out) :
                         out[i].start_line <= line /\ line <= out[i].end_line

C16_Witness ==
    /\ DefaultChunking
    /\ call.n > 2 * CHUNK_LINES
    /\ Len(ret.value) = 3
    /\ ret.value[3].end_line = call.n

\* the least integer not below a / b, for b > 0
CeilDiv(a, b) == (a + b - 1) \div b

\* C17: with size 200 and overlap 40 a file of n > 0 lines gives
\* ceil((n-200)/160)+1 chunks when n > 200, and 1 otherwise.
C17_ChunkCount ==
    (DefaultChunking /\ call.n > 0) =>
        Len(ret.value) = IF call.n > 200 THEN CeilDiv(call.n - 200, 160) + 1 ELSE 1

\* what the code gives: ceil(n/200) chunks
C17_ChunkCountNoOverlap ==
    (DefaultChunking /\ call.n > 0) => Len(ret.value) = CeilDiv(call.n, CHUNK_LINES)

\* C18: with size 200 and overlap 40 every chunk after the first starts at
\* the end of the one before minus the overlap, so two consecutive chunks
\* share 40 lines.
C18_Overlap ==
    DefaultChunking =>
        \A i \in 2..Len(ret.value) :
           /\ ret.value[i].start_line - 1 = ret.value[i - 1].end_line - 40
           /\ ret.value[i - 1].end_line - ret.value[i].start_line + 1 = 40

\* what the code gives: every chunk after the first starts on the line after
\* the end of the one before, so consecutive chunks share no line
C18_NoOverlap ==
    (ret.done /\ call.op = "_chunk_file" /\ call.read) =>
        \A i \in 2..Len(ret.value) :
           ret.value[i].start_line = ret.value[i - 1].end_line + 1

\* a line that holds a well-formed chunk record: an object with exactly the
\* four fields, path and text strings and the line numbers integers
WellFormed(line) == line.json = "object" /\ line.keys = "four" /\ line.typed

\* C20: load_index raises the not-found error exactly when the location
\* does not exist; for an existing file it does not raise, and it returns
\* the well-formed records in file order, every other line dropped.
C20_LoadIndex ==
    (ret.done /\ call.op = "load_index") =>
        /\ ret.raised = "FileNotFoundError" <=> ~call.exists
        /\ call.exists =>
              /\ ret.raised = "none"
              /\ ret.value = LET wf == SelectSeq(call.lines, WellFormed)
                             IN [i \in 1..Len(wf) |-> [id |-> wf[i].id, typed |-> TRUE]]

\* the part of C20 that holds: no line of the file is an object with the
\* four keys and values of other types
C20_LoadIndexTyped ==
    /\ ret.done
    /\ call.op = "load_index"
    /\ \A i \in 1..Len(call.lines) : Loads(call.lines[i]) => call.lines[i].typed
    => /\ ret.raised = "FileNotFoundError" <=> ~call.exists
       /\ call.exists =>
             /\ ret.raised = "none"
             /\ ret.value = LET wf == SelectSeq(call.lines, WellFormed)
                            IN [i \in 1..Len(wf) |-> [id |-> wf[i].id, typed |-> TRUE]]

\* a chunk of ill-typed values is returned
C20_IllTypedKept ==
    /\ ret.done
    /\ call.op = "load_index"
    /\ \E i \in 1..Len(ret.value) : ~ret.value[i].typed

\* C21: a sequence of chunks written as an index and loaded with load_index
\* comes back equal and in the same order, whether the records are as the
\* full build wrote them or were rewritten by an incremental merge.
C21_RoundTrip ==
    (ret.done /\ call.op = "write_load") => ret.value = call.chunks

C21_Witness ==
    /\ ret.done
    /\ call.op = "write_load"
    /\ call.merged
    /\ Len(call.chunks) = 2
    /\ call.chunks[1].text = <<Backslash>>
    /\ call.chunks[2].text = <<Ellipsis>>
    /\ Len(ret.value) = 2

\* the occurrences of a term among the words of a chunk, case ignored
Occurrences(doc, term) ==
    Cardinality({i \in 1..Len(doc) : Lower(doc[i][1]) = term})

\* the terms of the call's query
QueryTerms == {call.query[i] : i \in 1..Len(call.query)} \ {" "}

\* chunk i has more occurrences of one query term than chunk j, as many of
\* every other query term, and the same number of words
MoreOccurrences(i, j) ==
    /\ Len(call.docs[i]) = Len(call.docs[j])
    /\ \E q \in QueryTerms :
          /\ Occurrences(call.docs[i], q) > Occurrences(call.docs[j], q)
          /\ \A other \in QueryTerms \ {q} :
                Occurrences(call.docs[i], other) = Occurrences(call.docs[j], other)

\* C22: of two chunks of one corpus that have the same length and differ in
\* the occurrences of one query term, the one with more occurrences never
\* gets the lower score from _bm25_scores.
C22_Monotone ==
    (ret.done /\ call.op = "_bm25_scores") =>
        \A i, j \in 1..Len(call.docs) :
           MoreOccurrences(i, j) => ret.value[i] >= ret.value[j]

C22_Witness ==
    /\ ret.done
    /\ call.op = "_bm25_scores"
    /\ call.query = <<"a", " ", "b">>
    /\ MoreOccurrences(1, 2)
    /\ Occurrences(call.docs[2], "a") > 0
    /\ Occurrences(call.docs[2], "b") > 0
    /\ ret.value[1] > ret.value[2]

\* C23: for every file and every lines_per_chunk >= 1 and overlap >= 0, an
\* overlap as large as the chunk or larger included, _chunk_file ends: each
\* chunk starts strictly after the start of the one before, so a file of n
\* lines gives at most n chunks.
C23_Progress ==
    (ret.done /\ call.op = "_chunk_file") =>
        /\ \A i \in 2..Len(ret.value) :
              ret.value[i].start_line > ret.value[i - 1].start_line
        /\ Len(ret.value) <= call.n

C23_Witness ==
    /\ ret.done
    /\ call.op = "_chunk_file"
    /\ call.read
    /\ call.overlap >= call.lines_per_chunk
    /\ Len(ret.value) >= 3

(***************************************************************************)
(* rag_mcp_server.py: the JSON line listener.  In "tcp" mode every         *)
(* connection runs JSONLineHandler.handle on its own thread                *)
(* (ThreadingTCPServer); in "stdio" mode serve_stdio reads the one stream  *)
(* "c1" on the main thread.  A request line is one of these kinds:         *)
(*   blank         whitespace only                                         *)
(*   invalid_json  json.loads raises                                       *)
(*   non_object    valid JSON that is no dict: [1], 5, "x", null           *)
(*   bad_cmd       a dict whose cmd is a non-string, e.g. {"cmd": 5}       *)
(*   unknown       a dict whose cmd is not in HANDLERS                     *)
(*   ping, stop, build                                                     *)
(*   raises        a command whose handler raises, e.g. query with k="x"   *)
(***************************************************************************)
Kinds == {"blank", "invalid_json", "non_object", "bad_cmd", "unknown",
          "ping", "stop", "build", "raises"}

IndexLocs == {"i1", "i2"}

Streams == IF smode = "stdio" THEN {"c1"} ELSE Conns

\* the handler thread of c (or the stdio loop) is at its readline
CanRead(c) ==
    /\ sproc = "serving"
    /\ c \in Streams
    /\ conn[c].st = "open"
    /\ smode = "stdio" => ~shutdown_event

\* _send_json / sys.stdout.write of one response line
Send(c, ok, error) ==
    Append(conn[c].resp, [req |-> conn[c].nread + 1, ok |-> ok, error |-> error,
                          stopping |-> FALSE])

\* the response of handle_stop: {"ok": true, "stopping": true}
SendStopping(c) ==
    Append(conn[c].resp, [req |-> conn[c].nread + 1, ok |-> TRUE, error |-> FALSE,
                          stopping |-> TRUE])

InitServer ==
    /\ ComposeIdle
    /\ DiffIdle
    /\ BuildIdle
    /\ CallIdle
    /\ smode \in {"tcp", "stdio"}
    /\ sproc = "serving"
    /\ shutdown_event = FALSE
    /\ conn = [c \in Conns |-> NewConn]

\* readline returns "": the peer closed the stream
ReadEof(c) ==
    /\ CanRead(c)
    /\ conn' = [conn EXCEPT ![c].st = "closed", ![c].last = "eof"]
    /\ sproc' = IF smode = "stdio" THEN "stopped" ELSE sproc
    /\ UNCHANGED <<smode, shutdown_event>>
    /\ UNCHANGED <<composeVars, diffVars, buildVars, callVars>>

\* a blank line: continue, nothing is written
ReadBlank(c) ==
    /\ CanRead(c)
    /\ conn[c].nread < MaxReqs
    /\ conn' = [conn EXCEPT ![c].nread = @ + 1, ![c].last = "blank"]
    /\ UNCHANGED <<smode, sproc, shutdown_event>>
    /\ UNCHANGED <<composeVars, diffVars, buildVars, callVars>>

\* json.loads raises, or HANDLERS.get(cmd) is None: an error response
ReadRejected(c, kind) ==
    /\ CanRead(c)
    /\ conn[c].nread < MaxReqs
    /\ kind \in {"invalid_json", "unknown"}
    /\ conn' = [conn EXCEPT ![c].nread = @ + 1, ![c].last = kind,
                            ![c].resp = Send(c, FALSE, TRUE)]
    /\ UNCHANGED <<smode, sproc, shutdown_event>>
    /\ UNCHANGED <<composeVars, diffVars, buildVars, callVars>>

\* payload.get(...) or (...).lower() raises AttributeError outside any try:
\* the handler thread ends and socketserver closes the connection (tcp), or
\* serve_stdio and with it the process ends (stdio)
ReadUnguarded(c, kind) ==
    /\ CanRead(c)
    /\ conn[c].nread < MaxReqs
    /\ kind \in {"non_object", "bad_cmd"}
    /\ conn' = [conn EXCEPT ![c].nread = @ + 1, ![c].last = kind, ![c].st = "died"]
    /\ sproc' = IF smode = "stdio" THEN "crashed" ELSE sproc
    /\ UNCHANGED <<smode, shutdown_event>>
    /\ UNCHANGED <<composeVars, diffVars, buildVars, callVars>>

\* handle_ping, or a handler that raises inside the try
ReadHandled(c, kind) ==
    /\ CanRead(c)
    /\ conn[c].nread < MaxReqs
    /\ kind \in {"ping", "raises"}
    /\ conn' = [conn EXCEPT ![c].nread = @ + 1, ![c].last = kind,
                            ![c].resp = Send(c, kind = "ping", kind = "raises")]
    /\ UNCHANGED <<smode, sproc, shutdown_event>>
    /\ UNCHANGED <<composeVars, diffVars, buildVars, callVars>>

\* a plausible slip: the loop goes on after the stop was answered
ReadStopNoBreak(c) ==
    /\ CanRead(c)
    /\ conn[c].nread < MaxReqs
    /\ shutdown_event' = TRUE
    /\ conn' = [conn EXCEPT ![c].nread = @ + 1, ![c].last = "stop",
                            ![c].resp = SendStopping(c)]
    /\ UNCHANGED <<smode, sproc>>
    /\ UNCHANGED <<composeVars, diffVars, buildVars, callVars>>

\* handle_stop: set the event, reply, leave the loop
ReadStop(c) ==
    /\ CanRead(c)
    /\ conn[c].nread < MaxReqs
    /\ shutdown_event' = TRUE
    /\ conn' = [conn EXCEPT ![c].nread = @ + 1, ![c].last = "stop",
                            ![c].resp = SendStopping(c), ![c].st = "closed"]
    /\ sproc' = IF smode = "stdio" THEN "stopped" ELSE sproc
    /\ UNCHANGED smode
    /\ UNCHANGED <<composeVars, diffVars, buildVars, callVars>>

\* handle_build with a list of paths: _run_cli starts the CLI's build of index
BuildBegin(c, index) ==
    /\ CanRead(c)
    /\ conn[c].nread < MaxReqs
    /\ conn' = [conn EXCEPT ![c].last = "build", ![c].st = "building",
                            ![c].index = index]
    /\ UNCHANGED <<smode, sproc, shutdown_event>>
    /\ UNCHANGED <<composeVars, diffVars, buildVars, callVars>>

\* subprocess.run returns (or times out): the result is sent
BuildEnd(c, ok) ==
    /\ sproc = "serving"
    /\ conn[c].st = "building"
    /\ conn' = [conn EXCEPT ![c].nread = @ + 1, ![c].st = "open", ![c].index = "none",
                            ![c].resp = Send(c, ok, FALSE)]
    /\ UNCHANGED <<smode, sproc, shutdown_event>>
    /\ UNCHANGED <<composeVars, diffVars, buildVars, callVars>>

\* serve: the main loop sees the event, shuts the server down and returns;
\* the daemon handler threads end with the process
ServeShutdown ==
    /\ smode = "tcp"
    /\ sproc = "serving"
    /\ shutdown_event
    /\ sproc' = "stopped"
    /\ UNCHANGED <<smode, shutdown_event, conn>>
    /\ UNCHANGED <<composeVars, diffVars, buildVars, callVars>>

NextServer ==
    \/ \E c \in Conns : ReadEof(c)
    \/ \E c \in Conns : ReadBlank(c)
    \/ \E c \in Conns, kind \in Kinds : ReadRejected(c, kind)
    \/ \E c \in Conns, kind \in Kinds : ReadUnguarded(c, kind)
    \/ \E c \in Conns, kind \in Kinds : ReadHandled(c, kind)
    \/ \E c \in Conns : ReadStop(c)
    \/ \E c \in Conns, index \in IndexLocs : BuildBegin(c, index)
    \/ \E c \in Conns, ok \in BOOLEAN : BuildEnd(c, ok)
    \/ ServeShutdown

SpecServer == InitServer /\ [][NextServer]_vars

\* serve's main loop waits on the event with a timeout of one second, so once
\* the event is set it goes on to shut the server down
SpecServerLive == SpecServer /\ WF_vars(ServeShutdown)

(***************************************************************************)
(* C3.  At most one build per index location is in flight at any time.     *)
(***************************************************************************)
InFlight(index) == {c \in Conns : conn[c].st = "building" /\ conn[c].index = index}

C3_OneBuildPerIndex ==
    \A index \in IndexLocs : Cardinality(InFlight(index)) <= 1

(***************************************************************************)
(* C9.  Every request -- invalid JSON, JSON that is no object, an unknown  *)
(* command, a command whose handler raises -- gets an {ok:false, error}    *)
(* response, the stream stays open for the next request, and the serving   *)
(* process does not end because of it.                                     *)
(***************************************************************************)
Malformed == {"invalid_json", "non_object", "bad_cmd", "unknown", "raises"}

AnsweredWithError(c) ==
    /\ conn[c].resp # <<>>
    /\ LET r == conn[c].resp[Len(conn[c].resp)]
       IN r.req = conn[c].nread /\ ~r.ok /\ r.error

C9_MalformedRequestAnswered ==
    \A c \in Conns :
        conn[c].last \in Malformed =>
            /\ AnsweredWithError(c)
            /\ conn[c].st = "open"
            /\ sproc # "crashed"

\* what the code does keep: the requests it rejects inside its try blocks
C9_GuardedRequestAnswered ==
    \A c \in Conns :
        conn[c].last \in {"invalid_json", "unknown", "raises"} =>
            /\ AnsweredWithError(c)
            /\ conn[c].st = "open"
            /\ sproc # "crashed"

(***************************************************************************)
(* C24.  A stop is answered, ends its stream, and ends the server.         *)
(***************************************************************************)
Stopped(c) == conn[c].last = "stop"

\* the stop on c was answered {ok: true, stopping: true} and its loop was left
StopAnswered(c) ==
    /\ shutdown_event
    /\ conn[c].st = "closed"
    /\ conn[c].resp # <<>>
    /\ LET r == conn[c].resp[Len(conn[c].resp)]
       IN r.req = conn[c].nread /\ r.ok /\ r.stopping /\ ~r.error

\* C24: after a stop is handled the reply is {ok:true, stopping:true}, no
\* further request is processed on that connection or stdio stream, and the
\* server eventually shuts down.
C24_Stop ==
    /\ [](\A c \in Conns : Stopped(c) => StopAnswered(c))
    /\ [][\A c \in Conns : Stopped(c) => conn'[c] = conn[c]]_vars
    /\ (\E c \in Conns : Stopped(c)) ~> (sproc = "stopped")

C24_Witness ==
    /\ smode = "tcp"
    /\ sproc = "stopped"
    /\ Stopped("c1")
    /\ conn["c1"].nread = 2
    /\ conn["c2"].st = "building"

(***************************************************************************)
(* C25.  One response per request line, in the order of the requests.      *)
(***************************************************************************)
\* the step finishes the reading of one more request line on c
ReadsLine(c) == conn'[c].nread = conn[c].nread + 1

\* the step writes exactly one response on c, for the line just read
WritesOne(c) ==
    /\ Len(conn'[c].resp) = Len(conn[c].resp) + 1
    /\ SubSeq(conn'[c].resp, 1, Len(conn[c].resp)) = conn[c].resp
    /\ conn'[c].resp[Len(conn'[c].resp)].req = conn'[c].nread

\* the responses on c are in the order of their requests
InRequestOrder(c) ==
    \A i, j \in 1..Len(conn[c].resp) :
        i < j => conn[c].resp[i].req < conn[c].resp[j].req

\* C25: on one connection or stdio stream every non-blank request line that
\* is read gets exactly one response line, a blank line gets none, nothing
\* else is written, and the responses are in the order of the requests.
C25_OneResponsePerRequest ==
    /\ [](\A c \in Conns : InRequestOrder(c))
    /\ [][\A c \in Conns :
            IF ReadsLine(c) /\ conn'[c].last # "blank"
            THEN WritesOne(c)
            ELSE conn'[c].resp = conn[c].resp]_vars

\* what the code does keep: the same for every line but one that is valid
\* JSON and no object, or an object whose cmd is no string
C25_GuardedOneResponse ==
    /\ [](\A c \in Conns : InRequestOrder(c))
    /\ [][\A c \in Conns :
            IF ReadsLine(c) /\ conn'[c].last \notin {"blank", "non_object", "bad_cmd"}
            THEN WritesOne(c)
            ELSE conn'[c].resp = conn[c].resp]_vars

\* the files a given path covers
Covers(p) ==
    IF is_file(p) THEN {p}
    ELSE {os_walk(p)[i] : i \in 1..Len(os_walk(p))}

\* no two of the given paths name or cover the same file
GivenOnce(paths) ==
    \A i, j \in 1..Len(paths) : i # j => Covers(paths[i]) \cap Covers(paths[j]) = {}

\* no two records of lines have the same path and start_line
NoTwoAlike(lines) ==
    \A i, j \in 1..Len(lines) :
       i < j => ~(lines[i].path = lines[j].path /\ lines[i].start_line = lines[j].start_line)

\* C30: after a build the index holds no two records with the same path
\* and start_line, also when the given paths repeat or overlap.
C30_NoDuplicates ==
    call.op = "build_index" /\ ret.done => NoTwoAlike(ret.value)

\* the part of C30 that holds: every file is given once
C30_NoDuplicatesGivenOnce ==
    call.op = "build_index" /\ ret.done /\ GivenOnce(call.paths) => NoTwoAlike(ret.value)

\* a directory given together with one of its files: the file is written twice
C30_WrittenTwice ==
    /\ call.op = "build_index"
    /\ call.paths = <<"docs", "docs/a.md">>
    /\ ret.done
    /\ ~NoTwoAlike(ret.value)

\* diff_tree has returned
DiffTreeDone == call.op = "diff_tree" /\ ret.done

\* distinct files found have distinct keys, and cur holds under the key of
\* each file the information of that file
DistinctKeys(v) ==
    /\ \A i, j \in 1..Len(v.files) : v.files[i] # v.files[j] => v.keys[i] # v.keys[j]
    /\ \A i \in 1..Len(v.files) : v.cur[v.keys[i]] = v.files[i]

\* C31: diff_tree gives distinct manifest keys to distinct files, also to
\* files with the same root-relative path under two roots, so no file's
\* fingerprint overwrites another's in the manifest.
C31_DistinctKeys ==
    DiffTreeDone => DistinctKeys(ret.value)

\* the part of C31 that holds: one root, given once or several times
C31_DistinctKeysOneRoot ==
    DiffTreeDone /\ (\A i, j \in 1..Len(call.roots) : call.roots[i] = call.roots[j])
        => DistinctKeys(ret.value)

\* two roots with a file a.md each: one key, the second file's information
C31_Overwritten ==
    /\ DiffTreeDone
    /\ call.roots = <<(<<"r1">>), (<<"r2">>)>>
    /\ ret.value.cur[<<"a.md">>] = <<"r2", "a.md">>
    /\ \E i \in 1..Len(ret.value.files) :
          ret.value.files[i] = <<"r1", "a.md">> /\ ret.value.keys[i] = <<"a.md">>

====
